---- MODULE Spec2Model ----
(***************************************************************************)
(* A model of l_vrc_console: the bounded-history telemetry widgets         *)
(* (src/ui/components/usage_gauge.rs), the view registry App and the       *)
(* render loop show_ui (src/ui/viewer.rs), and the views                   *)
(* (src/ui/views/*.rs).                                                    *)
(*                                                                         *)
(* f64 values are modelled in fixed point: a number is a record            *)
(* [nan |-> FALSE, v |-> n] with n counted in 1/Resolution of a unit, and  *)
(* NaN is the record [nan |-> TRUE, v |-> 0].                              *)
(***************************************************************************)
EXTENDS Integers, Sequences, FiniteSets, TLC

\* ------------------------------------------------------------------ bounds

\* Fixed-point resolution of the f64 model: 1.0 is Resolution units, so the
\* smallest step above 50.0 is 50.0001 with Resolution = 10000.
Resolution == 10000

\* Capacity N of a history buffer.  The code sets 60 (usage_gauge.rs:10); no
\* operation depends on the value, and the model scales it down.
HISTORY_SIZE == 3

\* Number of push / set_usage calls applied to a widget.
MaxPushes == 4

\* Number of App operations in a run of the App specification.
MaxOps == 3

\* Number of views the registry may hold (App::new registers three).
MaxViews == 4

\* Number of iterations of the render loop a run of the loop specification
\* starts.
MaxIters == 3

\* Number of iterations a run of the idle loop starts: enough to climb from
\* the initial interval to the ceiling and to stay there.
MaxIdleIters == 18

\* Number of iterations a run of the loop under a stream of key presses
\* starts.
MaxKeyIters == 4

\* Elapsed times are counted up to CapMs milliseconds; the loop compares them
\* only with values of at most MAX_TICK_MS.
CapMs == 300

\* ------------------------------------------------------------------- f64

F(n) == [nan |-> FALSE, v |-> n]

\* n percent, and n percent plus the smallest representable step.
Pct(n) == F(n * Resolution)

PctPlus(n) == F(n * Resolution + 1)

NaN == [nan |-> TRUE, v |-> 0]

\* f64::clamp(self, min, max): NaN stays NaN.
f64_clamp(x, lo, hi) ==
    IF x.nan THEN x
    ELSE IF x.v < lo.v THEN lo
    ELSE IF x.v > hi.v THEN hi
    ELSE x

\* `x as u32` / `x as u16`: truncation toward zero, saturating, NaN -> 0.
\* (Every value cast in the code is far below the u16 maximum or negative.)
f64_as_uint(x) ==
    IF x.nan THEN 0
    ELSE IF x.v < 0 THEN 0
    ELSE IF x.v \div Resolution > 65535 THEN 65535
    ELSE x.v \div Resolution

\* match n { 0..=50 => Green, 51..=75 => Yellow, _ => Red }
ColorMatch(n) ==
    IF n <= 50 THEN "Green" ELSE IF n <= 75 THEN "Yellow" ELSE "Red"

\* vec![x; n]
VecRepeat(x, n) == [i \in 1..n |-> x]

\* *v.last().unwrap_or(&0.0)
VecLastOrZero(v) == IF Len(v) = 0 THEN F(0) ELSE v[Len(v)]

\* -------------------------------------------------------------- UsageGauge

UsageGauge_new ==
    [kind |-> "UsageGauge", usage_percent |-> F(0), color |-> "Green"]

\* UsageGauge::set_usage with a fault: the value is stored without the clamp.
UsageGauge_set_usage_NoClamp(self, percent) ==
    [self EXCEPT !.usage_percent = percent,
                 !.color = ColorMatch(f64_as_uint(percent))]

UsageGauge_set_usage(self, percent) ==
    LET clamped == f64_clamp(percent, Pct(0), Pct(100))
    IN  [self EXCEPT !.usage_percent = clamped,
                     !.color = ColorMatch(f64_as_uint(clamped))]

UsageGauge_get_usage(self) == self.usage_percent

UsageGauge_get_color(self) == self.color

\* .percent(self.usage_percent as u16)
UsageGauge_render_percent(self) == f64_as_uint(self.usage_percent)

\* -------------------------------------------------------------- UsageGraph

UsageGraph_new ==
    [kind |-> "UsageGraph", history |-> VecRepeat(F(0), HISTORY_SIZE),
     color |-> "Green", initialized |-> FALSE]

\* UsageGraph::push with a fault: the new sample is inserted at the front and
\* the newest one is dropped.
UsageGraph_push_Front(self, percent) ==
    LET clamped == f64_clamp(percent, Pct(0), Pct(100))
    IN  [self EXCEPT
           !.history = IF ~self.initialized
                       THEN VecRepeat(clamped, HISTORY_SIZE)
                       ELSE <<clamped>> \o SubSeq(self.history, 1, Len(self.history) - 1),
           !.initialized = TRUE,
           !.color = ColorMatch(f64_as_uint(clamped))]

UsageGraph_push(self, percent) ==
    LET clamped == f64_clamp(percent, Pct(0), Pct(100))
    IN  [self EXCEPT
           !.history = IF ~self.initialized
                       THEN VecRepeat(clamped, HISTORY_SIZE)
                       ELSE Append(Tail(self.history), clamped),
           !.initialized = TRUE,
           !.color = ColorMatch(f64_as_uint(clamped))]

UsageGraph_get_current(self) == VecLastOrZero(self.history)

\* --------------------------------------------------------------- CoreGraph

CoreGraph_new ==
    [kind |-> "CoreGraph", history |-> VecRepeat(F(0), HISTORY_SIZE)]

\* CoreGraph::push with a fault: the oldest sample is not evicted.
CoreGraph_push_NoEvict(self, percent) ==
    [self EXCEPT !.history = Append(self.history, f64_clamp(percent, Pct(0), Pct(100)))]

CoreGraph_push(self, percent) ==
    [self EXCEPT !.history =
        Append(Tail(self.history), f64_clamp(percent, Pct(0), Pct(100)))]

CoreGraph_current(self) == VecLastOrZero(self.history)

CoreGraph_color(self) == ColorMatch(f64_as_uint(CoreGraph_current(self)))

\* .percent(self.current() as u16)
CoreGraph_render_gauge_percent(self) == f64_as_uint(CoreGraph_current(self))

\* ------------------------------------------------- composite graphs

\* CpuGraph wraps one UsageGraph; push forwards to it.
CpuGraph_new == [graph |-> UsageGraph_new]

CpuGraph_push(self, percent) ==
    [self EXCEPT !.graph = UsageGraph_push(self.graph, percent)]

GpuGraph_new == [graph |-> UsageGraph_new, vram_graph |-> UsageGraph_new]

GpuGraph_push(self, percent) ==
    [self EXCEPT !.graph = UsageGraph_push(self.graph, percent)]

GpuGraph_push_vram(self, percent) ==
    [self EXCEPT !.vram_graph = UsageGraph_push(self.vram_graph, percent)]

\* +infinity, as a value above every finite value of the model.
PosInf == Pct(100000)

\* (used as f64 / total as f64) * 100.0, byte counts given in MiB:
\* 0/0 is NaN and x/0 is +infinity.
PercentOf(used, total) ==
    IF total = 0
    THEN (IF used = 0 THEN NaN ELSE PosInf)
    ELSE F((used * 100 * Resolution) \div total)

\* bytes as f64 / 1024.0 / 1024.0 / 1024.0, byte counts given in MiB.
GigaBytes(mib) == F((mib * Resolution) \div 1024)

MemoryGraph_new ==
    [kind |-> "MemoryGraph", graph |-> UsageGraph_new, used_gb |-> F(0),
     total_gb |-> F(0)]

\* MemoryGraph::push with a fault: the division is not guarded by
\* total_bytes > 0.
MemoryGraph_push_Unguarded(self, used_bytes, total_bytes) ==
    [self EXCEPT !.used_gb = GigaBytes(used_bytes),
                 !.total_gb = GigaBytes(total_bytes),
                 !.graph = UsageGraph_push(self.graph,
                                           PercentOf(used_bytes, total_bytes))]

MemoryGraph_push(self, used_bytes, total_bytes) ==
    LET percent == IF total_bytes > 0
                   THEN PercentOf(used_bytes, total_bytes)
                   ELSE F(0)
    IN  [self EXCEPT !.used_gb = GigaBytes(used_bytes),
                     !.total_gb = GigaBytes(total_bytes),
                     !.graph = UsageGraph_push(self.graph, percent)]

MemoryGauge_new ==
    [kind |-> "MemoryGauge", gauge |-> UsageGauge_new, used_gb |-> F(0),
     total_gb |-> F(0)]

MemoryGauge_set_usage(self, used_bytes, total_bytes) ==
    LET percent == IF total_bytes > 0
                   THEN PercentOf(used_bytes, total_bytes)
                   ELSE F(0)
    IN  [self EXCEPT !.used_gb = GigaBytes(used_bytes),
                     !.total_gb = GigaBytes(total_bytes),
                     !.gauge = UsageGauge_set_usage(self.gauge, percent)]

\* .percent(self.gauge.get_usage() as u16)
MemoryGauge_render_percent(self) == f64_as_uint(UsageGauge_get_usage(self.gauge))

\* ------------------------------------------------------------------ views

\* The key codes the code distinguishes, and one it does not ("x").
Keys == {"q", "Esc", "Tab", "Right", "BackTab", "Left", "g", "G", "x"}

StatusView_new == [kind |-> "StatusView"]

VrchatPageView_new == [kind |-> "VrchatPageView"]

SystemMonitorView_new(nvml) ==
    [kind |-> "SystemMonitorView", cpu_graph |-> CpuGraph_new,
     gpu_graph |-> GpuGraph_new, memory_graph |-> MemoryGraph_new,
     nvml |-> nvml]

\* One reading of the host (sysinfo and NVML) as a refresh sees it:
\*   cpu            global_cpu_usage()
\*   used, total    used_memory(), total_memory()           (MiB)
\*   device         device_by_index(0) is Ok
\*   util           utilization_rates(): <<>> for Err, <<gpu>> for Ok
\*   vram           memory_info(): <<>> for Err, <<used, total>> for Ok
\*   cores          cpu_usage() of each entry of cpus()
\* SystemMonitorView::refresh with a fault: a utilisation reading that is not
\* delivered resets the GPU buffer to its initial contents.
SystemMonitorView_refresh_Resets(self, m) ==
    LET withCpu == [self EXCEPT !.cpu_graph = CpuGraph_push(self.cpu_graph, m.cpu)]
        withMem == [withCpu EXCEPT !.memory_graph =
                        MemoryGraph_push(withCpu.memory_graph, m.used, m.total)]
        withGpu == IF self.nvml /\ m.device /\ Len(m.util) > 0
                   THEN [withMem EXCEPT !.gpu_graph =
                            GpuGraph_push(withMem.gpu_graph, m.util[1])]
                   ELSE [withMem EXCEPT !.gpu_graph.graph = UsageGraph_new]
    IN  IF self.nvml /\ m.device /\ Len(m.vram) > 0
        THEN [withGpu EXCEPT !.gpu_graph =
                 GpuGraph_push_vram(withGpu.gpu_graph,
                                    PercentOf(m.vram[1], m.vram[2]))]
        ELSE withGpu

SystemMonitorView_refresh(self, m) ==
    LET withCpu == [self EXCEPT !.cpu_graph = CpuGraph_push(self.cpu_graph, m.cpu)]
        withMem == [withCpu EXCEPT !.memory_graph =
                        MemoryGraph_push(withCpu.memory_graph, m.used, m.total)]
        withGpu == IF self.nvml /\ m.device /\ Len(m.util) > 0
                   THEN [withMem EXCEPT !.gpu_graph =
                            GpuGraph_push(withMem.gpu_graph, m.util[1])]
                   ELSE withMem
    IN  IF self.nvml /\ m.device /\ Len(m.vram) > 0
        THEN [withGpu EXCEPT !.gpu_graph =
                 GpuGraph_push_vram(withGpu.gpu_graph,
                                    PercentOf(m.vram[1], m.vram[2]))]
        ELSE withGpu

CpuCoresView_new(core_count) ==
    [kind |-> "CpuCoresView",
     cores |-> [i \in 1..core_count |-> CoreGraph_new],
     show_graph |-> FALSE]

CpuCoresView_refresh(self, m) ==
    [self EXCEPT !.cores =
        [i \in 1..Len(self.cores) |->
            IF i <= Len(m.cores)
            THEN CoreGraph_push(self.cores[i], m.cores[i])
            ELSE self.cores[i]]]

CpuCoresView_toggle_mode(self) ==
    [self EXCEPT !.show_graph = ~self.show_graph]

\* (n as f32 / d as f32).ceil() as usize, for the core counts of the model.
CeilDiv(n, d) == (n + d - 1) \div d

Min(a, b) == IF a < b THEN a ELSE b

\* The grid draw_with_area lays out: render_gauges in gauge mode,
\* render_graphs in graph mode; nothing is laid out without cores.
CpuCoresView_grid(self) ==
    LET core_count == Len(self.cores)
    IN  IF core_count = 0 THEN [cols |-> 0, rows |-> 0]
        ELSE IF self.show_graph
        THEN [cols |-> 2, rows |-> CeilDiv(core_count, 2)]
        ELSE [cols |-> Min(4, core_count), rows |-> CeilDiv(core_count, 4)]

\* The cells a grid of `rows` rows and `cols` columns renders for the cores:
\* for row in 0..rows, for col in 0..cols, idx = row * cols + col, and the cell
\* is rendered when cores.get(idx) is Some.  Cells are listed in the order the
\* loops visit them, with the code's 0-based row, col and idx.
GridCells(rows, cols, core_count) ==
    LET cell(k) == [row |-> (k - 1) \div cols, col |-> (k - 1) % cols,
                    idx |-> ((k - 1) \div cols) * cols + ((k - 1) % cols)]
        Visited == [k \in 1..(rows * cols) |-> cell(k)]
        Some(c) == c.idx < core_count
    IN  SelectSeq(Visited, Some)

\* What a draw of the CpuCoresView leaves on the frame when nothing is laid
\* out (no cores).
EmptyGrid(self) ==
    [show_graph |-> self.show_graph, core_count |-> Len(self.cores),
     cols |-> 0, rows |-> 0, cells |-> <<>>]

\* render_gauges with a fault: the row count is rounded down.
CpuCoresView_render_gauges_Floor(self) ==
    LET core_count == Len(self.cores)
        rows == core_count \div 4
        cols == Min(4, core_count)
    IN  IF core_count = 0 THEN EmptyGrid(self)
        ELSE [show_graph |-> FALSE, core_count |-> core_count,
              cols |-> cols, rows |-> rows,
              cells |-> GridCells(rows, cols, core_count)]

CpuCoresView_render_gauges(self) ==
    LET core_count == Len(self.cores)
        rows == CeilDiv(core_count, 4)
        cols == Min(4, core_count)
    IN  IF core_count = 0 THEN EmptyGrid(self)
        ELSE [show_graph |-> FALSE, core_count |-> core_count,
              cols |-> cols, rows |-> rows,
              cells |-> GridCells(rows, cols, core_count)]

CpuCoresView_render_graphs(self) ==
    LET core_count == Len(self.cores)
        cols == 2
        rows == CeilDiv(core_count, cols)
    IN  IF core_count = 0 THEN EmptyGrid(self)
        ELSE [show_graph |-> TRUE, core_count |-> core_count,
              cols |-> cols, rows |-> rows,
              cells |-> GridCells(rows, cols, core_count)]

\* draw_with_area of CpuCoresView: the grid of the current mode.
CpuCoresView_draw_with_area(self) ==
    IF self.show_graph THEN CpuCoresView_render_graphs(self)
    ELSE CpuCoresView_render_gauges(self)

\* An implementation of ViewComponent other than the repository's own, as
\* register_view / register_ticking_view accept any: its handle_key consumes
\* the keys of `consumes` (flipping `flag`) and its on_tick does nothing.
GenericView_new(consumes) ==
    [kind |-> "GenericView", consumes |-> consumes, flag |-> FALSE]

\* handle_key with a fault: no view consumes any key.
View_handle_key_Passes(view, key) == [view |-> view, consumed |-> FALSE]

\* ViewComponent::handle_key of each view: the view afterwards and whether it
\* consumed the key.  The trait's default consumes nothing.
View_handle_key(view, key) ==
    IF view.kind = "CpuCoresView"
    THEN (IF key \in {"g", "G"}
          THEN [view |-> CpuCoresView_toggle_mode(view), consumed |-> TRUE]
          ELSE [view |-> view, consumed |-> FALSE])
    ELSE IF view.kind = "GenericView"
    THEN (IF key \in view.consumes
          THEN [view |-> [view EXCEPT !.flag = ~view.flag], consumed |-> TRUE]
          ELSE [view |-> view, consumed |-> FALSE])
    ELSE [view |-> view, consumed |-> FALSE]

\* TickingComponent::on_tick of each view.
View_on_tick(view, m) ==
    IF view.kind = "SystemMonitorView" THEN SystemMonitorView_refresh(view, m)
    ELSE IF view.kind = "CpuCoresView" THEN CpuCoresView_refresh(view, m)
    ELSE view

\* ---------------------------------------------------------------- holders

TickingViewHolder(view) == [needs_tick |-> TRUE, inner |-> view]

ViewHolder(view) == [needs_tick |-> FALSE, inner |-> view]

\* on_tick with a fault: ViewHolder forwards the tick as TickingViewHolder does.
Holder_on_tick_Forwards(holder, m) ==
    [holder EXCEPT !.inner = View_on_tick(holder.inner, m)]

\* TickingViewTrait::on_tick: forwarded by TickingViewHolder, empty in
\* ViewHolder.
Holder_on_tick(holder, m) ==
    IF holder.needs_tick
    THEN [holder EXCEPT !.inner = View_on_tick(holder.inner, m)]
    ELSE holder

\* -------------------------------------------------------------------- App

\* current_view is the code's 0-based index; ticking_views[i + 1] is the
\* code's ticking_views[i].
App_new(nvml, core_count) ==
    [current_view |-> 0,
     ticking_views |-> << TickingViewHolder(StatusView_new),
                          TickingViewHolder(SystemMonitorView_new(nvml)),
                          TickingViewHolder(CpuCoresView_new(core_count)) >>,
     should_quit |-> FALSE,
     needs_clear |-> TRUE]

App_register_ticking_view(app, view) ==
    [app EXCEPT !.ticking_views = Append(app.ticking_views, TickingViewHolder(view))]

App_register_view(app, view) ==
    [app EXCEPT !.ticking_views = Append(app.ticking_views, ViewHolder(view))]

\* next_view with a fault: the index is advanced without the modulo.
App_next_view_NoWrap(app) ==
    IF Len(app.ticking_views) # 0
    THEN [app EXCEPT !.current_view = app.current_view + 1,
                     !.needs_clear = TRUE]
    ELSE app

\* next_view with a fault: switching the view clears the quit flag.
App_next_view_ResetsQuit(app) ==
    IF Len(app.ticking_views) # 0
    THEN [app EXCEPT !.current_view = (app.current_view + 1) % Len(app.ticking_views),
                     !.needs_clear = TRUE,
                     !.should_quit = FALSE]
    ELSE app

App_next_view(app) ==
    IF Len(app.ticking_views) # 0
    THEN [app EXCEPT !.current_view = (app.current_view + 1) % Len(app.ticking_views),
                     !.needs_clear = TRUE]
    ELSE app

\* prev_view with a fault: no wrap at index 0 (the index saturates).
App_prev_view_NoWrap(app) ==
    IF Len(app.ticking_views) # 0
    THEN [app EXCEPT !.current_view = IF app.current_view = 0 THEN 0
                                      ELSE app.current_view - 1,
                     !.needs_clear = TRUE]
    ELSE app

App_prev_view(app) ==
    IF Len(app.ticking_views) # 0
    THEN [app EXCEPT !.current_view = IF app.current_view = 0
                                      THEN Len(app.ticking_views) - 1
                                      ELSE app.current_view - 1,
                     !.needs_clear = TRUE]
    ELSE app

\* take_needs_clear with a fault: the flag is read but not reset.
App_take_needs_clear_NoReset(app) ==
    [result |-> app.needs_clear, app |-> app]

\* take_needs_clear: the flag read, and the App with the flag reset.
App_take_needs_clear(app) ==
    [result |-> app.needs_clear, app |-> [app EXCEPT !.needs_clear = FALSE]]

\* ticking_views.get(current_view) is Some.
App_has_current(app) == app.current_view < Len(app.ticking_views)

\* draw: the indices (0-based) of the views drawn; &self is not changed.
App_draw(app) == IF App_has_current(app) THEN {app.current_view} ELSE {}

\* on_tick with a fault: every registered view is ticked.
App_on_tick_All(app, m) ==
    [app EXCEPT !.ticking_views =
        [j \in 1..Len(app.ticking_views) |-> Holder_on_tick(app.ticking_views[j], m)]]

App_on_tick(app, m) ==
    IF App_has_current(app)
    THEN [app EXCEPT !.ticking_views[app.current_view + 1] =
             Holder_on_tick(app.ticking_views[app.current_view + 1], m)]
    ELSE app

\* The global bindings with a fault: a key without a binding quits.
App_global_key_DefaultQuits(app, key) ==
    IF key \in {"Tab", "Right"} THEN App_next_view(app)
    ELSE IF key \in {"BackTab", "Left"} THEN App_prev_view(app)
    ELSE [app EXCEPT !.should_quit = TRUE]

\* The global bindings of handle_key.
App_global_key(app, key) ==
    IF key \in {"q", "Esc"} THEN [app EXCEPT !.should_quit = TRUE]
    ELSE IF key \in {"Tab", "Right"} THEN App_next_view(app)
    ELSE IF key \in {"BackTab", "Left"} THEN App_prev_view(app)
    ELSE app

\* handle_key with a fault: the global bindings are applied even when the view
\* consumed the key.
App_handle_key_FallsThrough(app, key) ==
    IF App_has_current(app)
    THEN LET r == View_handle_key(app.ticking_views[app.current_view + 1].inner, key)
             stored == [app EXCEPT !.ticking_views[app.current_view + 1].inner = r.view]
         IN  App_global_key(stored, key)
    ELSE App_global_key(app, key)

App_handle_key(app, key) ==
    IF App_has_current(app)
    THEN LET r == View_handle_key(app.ticking_views[app.current_view + 1].inner, key)
             stored == [app EXCEPT !.ticking_views[app.current_view + 1].inner = r.view]
         IN  IF r.consumed THEN stored ELSE App_global_key(stored, key)
    ELSE App_global_key(app, key)

App_should_quit(app) == app.should_quit

\* Whether the active view's handle_key returns true for the key.
App_view_consumes(app, key) ==
    /\ App_has_current(app)
    /\ View_handle_key(app.ticking_views[app.current_view + 1].inner, key).consumed

\* No event has been read in the iteration.
NoEvent == [type |-> "None", kind |-> "", code |-> ""]

\* Nothing has been drawn.
NoFrame == [drawn |-> FALSE]

\* ------------------------------------------------------ viewer channels

\* The threads of the model that call get_viewer_channels, and the two
\* channels of a ViewerChannels: command (command_tx -> command_rx) and
\* message (message_tx -> message_rx).
Threads == {1, 2}

ChannelNames == {"command", "message"}

\* VIEWER_CHANNELS before any call: the OnceLock is empty (cell = <<>>), no
\* initializer runs (running = 0) and none has run (created = 0); no thread
\* is inside get_viewer_channels (at = "out") and none has been handed a pair
\* (got: the pairs returned to each thread, oldest first; a pair is named by
\* the number of the initializer run that built it); waited is the set of
\* threads that found an initializer running when they called.  Per channel: the
\* messages in flight (queue), all messages sent (sent) and all messages
\* received (received), oldest first.
NoChannels ==
    [cell |-> <<>>, running |-> 0, created |-> 0, waited |-> {},
     at |-> [t \in Threads |-> "out"],
     got |-> [t \in Threads |-> <<>>],
     queue |-> [c \in ChannelNames |-> <<>>],
     sent |-> [c \in ChannelNames |-> <<>>],
     received |-> [c \in ChannelNames |-> <<>>]]

\* ------------------------------------------------ widget specification

\* The widget exercised (one UsageGauge, UsageGraph or CoreGraph) and the
\* inputs handed to it so far, oldest first.
VARIABLES widget, pushed

wvars == <<widget, pushed>>

\* The App, the host it runs on ([core_count, nvml]: cpus().len() and whether
\* Nvml::init() succeeded), and the operations applied since App::new, oldest
\* first, each with the App before it.
VARIABLES app, host, trail

avars == <<app, host, trail>>

\* show_ui: the position in it (pc), the terminal ([raw, alt, cursor]), the
\* pacing state (tick_rate; last_tick.elapsed() as tick_elapsed;
\* frame_start.elapsed() as frame_elapsed; last_frame_time), the timeout
\* handed to event::poll, the value returned, the iterations started, and the
\* key codes routed to App::handle_key so far.
VARIABLES pc, term, tick_rate, tick_elapsed, frame_elapsed, last_frame_time,
          timeout, result, iter, routed

\* More of show_ui: the event event::read delivered in the current iteration
\* (until the tick check, NoEvent otherwise), the number of terminal.clear() calls made, and the costs the host produces
\* from now on (load: any, or every iteration slow, or every iteration fast).
VARIABLES event, clears, load

\* main: the lines written to the error stream and the exit code of the
\* process (<<>> while it runs).
VARIABLES stderr, exit_code

mvars == <<stderr, exit_code>>

lvars == <<pc, term, tick_rate, tick_elapsed, frame_elapsed, last_frame_time,
           timeout, result, iter, routed, event, clears, load, stderr,
           exit_code>>

\* A CpuCoresView drawn on its own, and what its last draw laid out.
VARIABLES cores_view, frame

\* A SystemMonitorView ticked on its own, and the reading its last tick saw
\* (<<>> before the first tick).
VARIABLES monitor_view, reading

\* The process-wide VIEWER_CHANNELS and the threads using it.
VARIABLE chan

xvars == <<monitor_view, reading, chan>>

cvars == <<cores_view, frame, monitor_view, reading, chan>>

vars == <<widget, pushed, app, host, trail, pc, term, tick_rate, tick_elapsed,
          frame_elapsed, last_frame_time, timeout, result, iter, routed,
          event, clears, load, stderr, exit_code, cores_view, frame,
          monitor_view, reading, chan>>

\* Inputs of push / set_usage: below, inside and above the range, the band
\* boundaries and the first representable value above each, and NaN.
Inputs ==
    {Pct(0 - 5), Pct(0), Pct(50), PctPlus(50), Pct(75), PctPlus(75),
     Pct(100), Pct(150), NaN}

InRange(x) == ~x.nan /\ Pct(0).v <= x.v /\ x.v <= Pct(100).v

WidgetInit ==
    /\ widget \in {UsageGauge_new, UsageGraph_new, CoreGraph_new}
    /\ pushed = <<>>

UsageGaugeSetUsage(p) ==
    /\ widget.kind = "UsageGauge"
    /\ Len(pushed) < MaxPushes
    /\ widget' = UsageGauge_set_usage(widget, p)
    /\ pushed' = Append(pushed, p)
    /\ UNCHANGED <<avars, lvars, cvars>>

UsageGraphPush(p) ==
    /\ widget.kind = "UsageGraph"
    /\ Len(pushed) < MaxPushes
    /\ widget' = UsageGraph_push(widget, p)
    /\ pushed' = Append(pushed, p)
    /\ UNCHANGED <<avars, lvars, cvars>>

CoreGraphPush(p) ==
    /\ widget.kind = "CoreGraph"
    /\ Len(pushed) < MaxPushes
    /\ widget' = CoreGraph_push(widget, p)
    /\ pushed' = Append(pushed, p)
    /\ UNCHANGED <<avars, lvars, cvars>>

WidgetNext ==
    \E p \in Inputs :
        \/ UsageGaugeSetUsage(p)
        \/ UsageGraphPush(p)
        \/ CoreGraphPush(p)

\* show_ui is not running while widgets or the App are exercised on their own.
LoopIdle ==
    /\ pc = "idle"
    /\ term = [raw |-> FALSE, alt |-> FALSE, cursor |-> TRUE]
    /\ tick_rate = 0
    /\ tick_elapsed = 0
    /\ frame_elapsed = 0
    /\ last_frame_time = 0
    /\ timeout = 0
    /\ result = "none"
    /\ iter = 0
    /\ routed = <<>>
    /\ event = NoEvent
    /\ clears = 0
    /\ load = "any"
    /\ stderr = <<>>
    /\ exit_code = <<>>

\* No CpuCoresView is drawn on its own.
CoresRest ==
    /\ cores_view = CpuCoresView_new(0)
    /\ frame = NoFrame

\* No SystemMonitorView is ticked on its own.
MonitorIdle ==
    /\ monitor_view = SystemMonitorView_new(FALSE)
    /\ reading = <<>>

\* No thread uses the channels.
ChannelsIdle == chan = NoChannels

\* None of the views and channels exercised on their own is in use.
CoresIdle == CoresRest /\ MonitorIdle /\ ChannelsIdle

\* No App is running while the widgets are exercised on their own.
AppIdle ==
    /\ host = [core_count |-> 0, nvml |-> FALSE]
    /\ app = App_new(FALSE, 0)
    /\ trail = <<>>

Init == WidgetInit /\ AppIdle /\ LoopIdle /\ CoresIdle

Spec == Init /\ [][WidgetNext]_vars

\* --------------------------------------------- properties of the widgets

IsGraph(w) == w.kind \in {"UsageGraph", "CoreGraph"}

\* get_current() of a UsageGraph, current() of a CoreGraph, get_usage() of a
\* UsageGauge.
CurrentOf(w) ==
    IF w.kind = "UsageGraph" THEN UsageGraph_get_current(w)
    ELSE IF w.kind = "CoreGraph" THEN CoreGraph_current(w)
    ELSE UsageGauge_get_usage(w)

\* The colour a widget is drawn in.
ColorOf(w) ==
    IF w.kind = "UsageGraph" THEN w.color
    ELSE IF w.kind = "CoreGraph" THEN CoreGraph_color(w)
    ELSE UsageGauge_get_color(w)

LastPushed == pushed[Len(pushed)]

\* C1: a history buffer (UsageGraph, CoreGraph) always holds exactly
\* HISTORY_SIZE samples; its current value is the sentinel 0 while nothing was
\* pushed and the clamp of the most recently pushed value afterwards.
C1_LengthAndCurrent ==
    IsGraph(widget) =>
        /\ Len(widget.history) = HISTORY_SIZE
        /\ pushed = <<>> => CurrentOf(widget) = F(0)
        /\ pushed # <<>> =>
               CurrentOf(widget) = f64_clamp(LastPushed, Pct(0), Pct(100))

C1_Witness ==
    /\ widget.kind = "UsageGraph"
    /\ Len(pushed) = 3
    /\ pushed[2] = Pct(50)
    /\ LastPushed = Pct(150)
    /\ UsageGraph_get_current(widget) = Pct(100)
    /\ Len(widget.history) = HISTORY_SIZE

\* C2: after the very first push of v into a fresh history buffer
\* (UsageGraph or CoreGraph) every one of the HISTORY_SIZE slots reads
\* clamp(v).
C2_FirstPushSeedsAll ==
    (IsGraph(widget) /\ Len(pushed) = 1) =>
        \A i \in 1..HISTORY_SIZE :
            widget.history[i] = f64_clamp(pushed[1], Pct(0), Pct(100))

AllInRange(s) == \A i \in 1..Len(s) : InRange(s[i])

\* C3: FIFO eviction.  In-range values v1..v_{N+1} pushed into a fresh buffer
\* of capacity N leave it equal to v2..v_{N+1}; and every push after the first
\* drops slot 0, shifts the other slots down by one and stores the new
\* (clamped) value in the last slot.
C3_Fifo ==
    /\ []((IsGraph(widget) /\ Len(pushed) = HISTORY_SIZE + 1 /\ AllInRange(pushed))
            => widget.history = Tail(pushed))
    /\ [][(IsGraph(widget) /\ Len(pushed) >= 1 /\ pushed' # pushed) =>
            /\ Len(widget'.history) = Len(widget.history)
            /\ \A i \in 1..(Len(widget.history) - 1) :
                   widget'.history[i] = widget.history[i + 1]
            /\ widget'.history[Len(widget.history)] =
                   f64_clamp(pushed'[Len(pushed')], Pct(0), Pct(100))]_wvars

C3_Witness ==
    /\ widget.kind = "CoreGraph"
    /\ Len(pushed) = HISTORY_SIZE + 1
    /\ AllInRange(pushed)
    /\ pushed[1] = Pct(100)
    /\ pushed[2] = Pct(50)
    /\ pushed[3] = Pct(75)
    /\ widget.history = Tail(pushed)

\* C4: the value stored by push or set_usage lies in [0,100] whatever the
\* input: 0 for an input below 0, 100 for an input above 100, the input itself
\* otherwise.
C4_StoredInRange ==
    pushed # <<>> =>
        /\ InRange(CurrentOf(widget))
        /\ (~LastPushed.nan /\ LastPushed.v < 0) => CurrentOf(widget) = Pct(0)
        /\ (~LastPushed.nan /\ LastPushed.v > Pct(100).v) => CurrentOf(widget) = Pct(100)
        /\ InRange(LastPushed) => CurrentOf(widget) = LastPushed

\* The severity bands of the specification: [0,50] low, (50,75] mid,
\* (75,100] high.
Band(x) ==
    IF x.v <= Pct(50).v THEN "Green"
    ELSE IF x.v <= Pct(75).v THEN "Yellow"
    ELSE "Red"

\* C5: the colour of a widget whose current value x lies in [0,100] is low
\* (Green) iff x <= 50, mid (Yellow) iff 50 < x <= 75 and high (Red) iff
\* x > 75, non-integers included.
C5_SeverityBands ==
    InRange(CurrentOf(widget)) => ColorOf(widget) = Band(CurrentOf(widget))

\* ------------------------------------------------------ App specification

\* cpus().len() of the hosts of the model.
CoreCounts == {2, 8}

\* Per-core readings: core 0 reads a, every other core b.
CoreReadings(n, a, b) == [i \in 1..n |-> IF i = 1 THEN a ELSE b]

\* The host readings a tick of the App specification may see.
AppSamples ==
    { [cpu |-> Pct(30), used |-> 512, total |-> 1024, device |-> TRUE,
       util |-> <<Pct(80)>>, vram |-> <<256, 1024>>,
       cores |-> CoreReadings(host.core_count, Pct(60), Pct(60))],
      [cpu |-> PctPlus(75), used |-> 0, total |-> 0, device |-> TRUE,
       util |-> <<>>, vram |-> <<0, 0>>,
       cores |-> CoreReadings(host.core_count, Pct(100), Pct(10))] }

\* Views registered after App::new.
Registrable ==
    {VrchatPageView_new, GenericView_new({"Tab", "q"}),
     CpuCoresView_new(host.core_count)}

AppInit ==
    /\ host \in [core_count : CoreCounts, nvml : BOOLEAN]
    /\ app = App_new(host.nvml, host.core_count)
    /\ trail = <<>>

Op(name, key, consumed) ==
    [op |-> name, key |-> key, consumed |-> consumed, before |-> app]

Record(name, key, consumed) ==
    /\ Len(trail) < MaxOps
    /\ trail' = Append(trail, Op(name, key, consumed))
    /\ host' = host
    /\ UNCHANGED <<wvars, lvars, cvars>>

AppNextView ==
    /\ Record("next_view", "", FALSE)
    /\ app' = App_next_view(app)

AppPrevView ==
    /\ Record("prev_view", "", FALSE)
    /\ app' = App_prev_view(app)

AppTakeNeedsClear ==
    /\ Record("take_needs_clear", "", FALSE)
    /\ app' = App_take_needs_clear(app).app

AppDraw ==
    /\ Record("draw", "", FALSE)
    /\ app' = app

AppOnTick(m) ==
    /\ Record("on_tick", "", FALSE)
    /\ app' = App_on_tick(app, m)

AppHandleKey(key) ==
    /\ Record("handle_key", key, App_view_consumes(app, key))
    /\ app' = App_handle_key(app, key)

AppRegisterTickingView(view) ==
    /\ Len(app.ticking_views) < MaxViews
    /\ Record("register_ticking_view", "", FALSE)
    /\ app' = App_register_ticking_view(app, view)

AppRegisterView(view) ==
    /\ Len(app.ticking_views) < MaxViews
    /\ Record("register_view", "", FALSE)
    /\ app' = App_register_view(app, view)

AppNext ==
    \/ AppNextView
    \/ AppPrevView
    \/ AppTakeNeedsClear
    \/ AppDraw
    \/ \E m \in AppSamples : AppOnTick(m)
    \/ \E key \in Keys : AppHandleKey(key)
    \/ \E view \in Registrable : AppRegisterTickingView(view)
    \/ \E view \in Registrable : AppRegisterView(view)

\* No widget is exercised on its own while the App runs.
WidgetIdle ==
    /\ widget = UsageGauge_new
    /\ pushed = <<>>

InitApp == AppInit /\ WidgetIdle /\ LoopIdle /\ CoresIdle

SpecApp == InitApp /\ [][AppNext]_vars

\* --------------------------------------------------- properties of the App

\* The App after the i-th operation of the trail.
After(i) == IF i = Len(trail) THEN app ELSE trail[i + 1].before

\* The view at the current index.
ActiveView(a) == a.ticking_views[a.current_view + 1].inner

SameFlags(a, b) ==
    /\ a.current_view = b.current_view
    /\ a.should_quit = b.should_quit
    /\ a.needs_clear = b.needs_clear

\* C6: over a non-empty registry of len views next_view sets the index to
\* (i+1) mod len and prev_view to (i-1) mod len, each sets the redraw flag,
\* and next_view then prev_view (or the reverse) restores the index.
C6_CircularSwitch ==
    \A i \in 1..Len(trail) :
        LET b == trail[i].before
            a == After(i)
            len == Len(b.ticking_views)
        IN  /\ (trail[i].op = "next_view" /\ len > 0) =>
                  /\ a.current_view = (b.current_view + 1) % len
                  /\ b.current_view = len - 1 => a.current_view = 0
                  /\ a.needs_clear
            /\ (trail[i].op = "prev_view" /\ len > 0) =>
                  /\ a.current_view = (b.current_view - 1) % len
                  /\ b.current_view = 0 => a.current_view = len - 1
                  /\ a.needs_clear
            /\ (i < Len(trail) /\ len > 0
                  /\ <<trail[i].op, trail[i + 1].op>> \in
                        {<<"next_view", "prev_view">>, <<"prev_view", "next_view">>})
               => After(i + 1).current_view = b.current_view

C6_Witness ==
    /\ Len(trail) = 3
    /\ trail[1].op = "take_needs_clear"
    /\ trail[2].op = "prev_view"
    /\ trail[2].before.current_view = 0
    /\ ~trail[2].before.needs_clear
    /\ trail[3].op = "next_view"
    /\ trail[3].before.current_view = 2
    /\ trail[3].before.needs_clear
    /\ app.current_view = 0
    /\ Len(app.ticking_views) = 3

\* C7: after App::new and any sequence of key events, ticks, draws, next_view
\* and prev_view calls the current index is a valid index of the registry.
C7_IndexValid ==
    Len(app.ticking_views) > 0 =>
        (0 <= app.current_view /\ app.current_view < Len(app.ticking_views))

C7_Witness ==
    /\ Len(trail) = 3
    /\ trail[1].op = "handle_key" /\ trail[1].key = "Left"
    /\ trail[2].op = "on_tick"
    /\ trail[3].op = "handle_key" /\ trail[3].key = "Tab"
    /\ trail[3].before.current_view = 2
    /\ Len(app.ticking_views) = 3
    /\ app.current_view = 0

\* C8: when the active view's handle_key returns true, App::handle_key applies
\* no global binding: the quit flag, the index and the redraw flag are as
\* before, also for a key that has a global binding.
C8_ConsumedKeyNoGlobal ==
    \A i \in 1..Len(trail) :
        (trail[i].op = "handle_key" /\ trail[i].consumed)
            => SameFlags(After(i), trail[i].before)

C8_Witness ==
    /\ Len(trail) = 3
    /\ trail[3].op = "handle_key"
    /\ trail[3].key = "Tab"
    /\ trail[3].consumed
    /\ ActiveView(trail[3].before).kind = "GenericView"
    /\ ActiveView(app).flag # ActiveView(trail[3].before).flag
    /\ SameFlags(app, trail[3].before)

\* C10: with CpuCoresView active, g or G flips the display mode, is consumed
\* and leaves index, quit flag and redraw flag alone; a second press restores
\* the mode; with 8 cores in gauge mode the press gives the graph grid of
\* 2 columns by 4 rows.
C10_ToggleMode ==
    \A i \in 1..Len(trail) :
        LET b == trail[i].before
            a == After(i)
        IN  (trail[i].op = "handle_key" /\ trail[i].key \in {"g", "G"}
                /\ App_has_current(b) /\ ActiveView(b).kind = "CpuCoresView")
            => /\ trail[i].consumed
               /\ ActiveView(a).kind = "CpuCoresView"
               /\ ActiveView(a).show_graph = ~ActiveView(b).show_graph
               /\ SameFlags(a, b)
               /\ (Len(ActiveView(b).cores) = 8 /\ ~ActiveView(b).show_graph)
                     => CpuCoresView_grid(ActiveView(a)) = [cols |-> 2, rows |-> 4]
               /\ (i < Len(trail) /\ trail[i + 1].op = "handle_key"
                      /\ trail[i + 1].key \in {"g", "G"})
                     => ActiveView(After(i + 1)).show_graph = ActiveView(b).show_graph

C10_Witness ==
    /\ Len(trail) = 3
    /\ trail[1].op = "handle_key" /\ trail[1].key = "BackTab"
    /\ trail[2].op = "handle_key" /\ trail[2].key = "g"
    /\ Len(ActiveView(trail[2].before).cores) = 8
    /\ CpuCoresView_grid(ActiveView(trail[2].before)) = [cols |-> 4, rows |-> 2]
    /\ CpuCoresView_grid(ActiveView(trail[3].before)) = [cols |-> 2, rows |-> 4]
    /\ trail[3].op = "handle_key" /\ trail[3].key = "G"
    /\ ~ActiveView(app).show_graph

\* C18: on_tick and draw reach the view at the current index only: whatever
\* ticks and view switches came before, a tick leaves every other view (its
\* history buffers and the rest of its state) and the App's index and flags
\* as they were, and a draw draws the current view and changes nothing.
C18_TickActiveOnly ==
    \A i \in 1..Len(trail) :
        LET before == trail[i].before
            after == After(i)
        IN  /\ trail[i].op = "on_tick"
               => /\ SameFlags(after, before)
                  /\ Len(after.ticking_views) = Len(before.ticking_views)
                  /\ \A j \in 1..Len(before.ticking_views) :
                        j # before.current_view + 1
                        => after.ticking_views[j] = before.ticking_views[j]
            /\ trail[i].op = "draw"
               => /\ after = before
                  /\ App_draw(before) = {before.current_view}

\* A tick at index 1 after a switch: the SystemMonitorView took the reading.
C18_Witness ==
    /\ Len(trail) = 3
    /\ trail[1].op = "handle_key" /\ trail[1].key = "Tab"
    /\ trail[2].op = "on_tick"
    /\ trail[2].before.current_view = 1
    /\ trail[3].before.ticking_views[2] # trail[2].before.ticking_views[2]
    /\ trail[3].op = "draw"

\* C19: a tick of the App while the view at the current index was registered
\* through register_view (needs_tick = false) changes nothing at all, so the
\* App is the same whether the on_tick call is made or skipped.
C19_NoTickIsNoOp ==
    \A i \in 1..Len(trail) :
        LET before == trail[i].before
        IN  (/\ trail[i].op = "on_tick"
             /\ App_has_current(before)
             /\ ~before.ticking_views[before.current_view + 1].needs_tick)
            => After(i) = before

\* A CpuCoresView registered through register_view is at the current index and
\* the App is ticked.
C19_Witness ==
    /\ Len(trail) = 3
    /\ trail[1].op = "register_view"
    /\ trail[2].op = "prev_view"
    /\ trail[3].op = "on_tick"
    /\ trail[3].before.current_view = 3
    /\ ActiveView(trail[3].before).kind = "CpuCoresView"
    /\ ~trail[3].before.ticking_views[4].needs_tick
    /\ app = trail[3].before

\* C25: a pressed key that the active view does not consume and that has no
\* global binding is ignored: handle_key leaves the index, the flags and every
\* view as they were.
C25_UnboundKeyIgnored ==
    \A i \in 1..Len(trail) :
        (/\ trail[i].op = "handle_key"
         /\ ~trail[i].consumed
         /\ trail[i].key \notin {"q", "Esc", "Tab", "Right", "BackTab", "Left"})
        => After(i) = trail[i].before

\* g while the StatusView is active, then g while the SystemMonitorView is.
C25_Witness ==
    /\ Len(trail) = 3
    /\ trail[1].op = "handle_key" /\ trail[1].key = "g"
    /\ ~trail[1].consumed
    /\ ActiveView(trail[1].before).kind = "StatusView"
    /\ trail[2].op = "next_view"
    /\ trail[3].op = "handle_key" /\ trail[3].key = "g"
    /\ ActiveView(trail[3].before).kind = "SystemMonitorView"
    /\ app = trail[3].before

\* C31: should_quit is false after App::new; an operation that finds it
\* true leaves it true; and the only operation that turns it from false to
\* true is a handle_key of q or Esc that the active view did not consume.
C31_QuitMonotonic ==
    /\ ~App_should_quit(After(0))
    /\ \A i \in 1..Len(trail) :
          /\ App_should_quit(trail[i].before) => App_should_quit(After(i))
          /\ (~App_should_quit(trail[i].before) /\ App_should_quit(After(i))) =>
                /\ trail[i].op = "handle_key"
                /\ trail[i].key \in {"q", "Esc"}
                /\ ~trail[i].consumed
          /\ (/\ trail[i].op = "handle_key"
              /\ trail[i].key \in {"q", "Esc"}
              /\ ~trail[i].consumed) => App_should_quit(After(i))

\* Esc set the flag; a view switch and a take_needs_clear after it left it
\* set.
C31_Witness ==
    /\ Len(trail) = 3
    /\ trail[1].op = "handle_key" /\ trail[1].key = "Esc"
    /\ ~trail[1].consumed
    /\ ~App_should_quit(trail[1].before)
    /\ trail[2].op = "handle_key" /\ trail[2].key = "Tab"
    /\ trail[2].before.current_view # trail[3].before.current_view
    /\ trail[3].op = "take_needs_clear"
    /\ App_should_quit(app)

\* ------------------------------------------- CpuCoresView specification

\* The largest cpus().len() of the hosts on which the view is drawn.
MaxCores == 9

\* The readings a refresh of the view may see.
CoresSamples ==
    { [cores |-> CoreReadings(Len(cores_view.cores), Pct(60), Pct(60))],
      [cores |-> CoreReadings(Len(cores_view.cores), Pct(100), Pct(10))] }

CoresInit ==
    /\ cores_view \in {CpuCoresView_new(n) : n \in 0..MaxCores}
    /\ frame = NoFrame

\* TickingComponent::on_tick of the view.
CoresOnTick(m) ==
    /\ cores_view' = View_on_tick(cores_view, m)
    /\ frame' = frame
    /\ UNCHANGED <<wvars, avars, lvars, xvars>>

\* ViewComponent::handle_key of the view.
CoresHandleKey(key) ==
    /\ cores_view' = View_handle_key(cores_view, key).view
    /\ frame' = frame
    /\ UNCHANGED <<wvars, avars, lvars, xvars>>

\* ViewComponent::draw_with_area of the view.
CoresDraw ==
    /\ frame' = [drawn |-> TRUE, grid |-> CpuCoresView_draw_with_area(cores_view)]
    /\ cores_view' = cores_view
    /\ UNCHANGED <<wvars, avars, lvars, xvars>>

CoresNext ==
    \/ \E m \in CoresSamples : CoresOnTick(m)
    \/ \E key \in {"g", "G", "x"} : CoresHandleKey(key)
    \/ CoresDraw

InitCores ==
    CoresInit /\ WidgetIdle /\ AppIdle /\ LoopIdle /\ MonitorIdle /\ ChannelsIdle

SpecCores == InitCores /\ [][CoresNext]_vars

\* ---------------------------------------- properties of the CpuCoresView

\* rows = ceil(core_count / per_row), said without the division.
IsCeil(rows, core_count, per_row) ==
    rows * per_row >= core_count /\ (rows - 1) * per_row < core_count

\* Every core index 0..n-1 is in exactly one cell, the cell row-major order
\* gives it, and no cell holds anything else.
RowMajorOnce(g) ==
    /\ \A i \in 0..(g.core_count - 1) :
          /\ Cardinality({k \in DOMAIN g.cells : g.cells[k].idx = i}) = 1
          /\ \A k \in DOMAIN g.cells :
                g.cells[k].idx = i
                => /\ g.cells[k].row = i \div g.cols
                   /\ g.cells[k].col = i % g.cols
    /\ \A k \in DOMAIN g.cells :
          /\ g.cells[k].idx \in 0..(g.core_count - 1)
          /\ g.cells[k].row \in 0..(g.rows - 1)
          /\ g.cells[k].col \in 0..(g.cols - 1)
          /\ g.cells[k].idx = g.cells[k].row * g.cols + g.cells[k].col

\* C11 as stated: for every core count n >= 1 a draw in gauge mode lays out 4
\* columns and ceil(n/4) rows, a draw in graph mode 2 columns and ceil(n/2)
\* rows, and in both modes every core index 0..n-1 is rendered in exactly one
\* cell, row-major, and no cell renders a core that does not exist.
C11_GridAsStated ==
    (frame.drawn /\ frame.grid.core_count >= 1)
    => /\ ~frame.grid.show_graph
          => /\ frame.grid.cols = 4
             /\ IsCeil(frame.grid.rows, frame.grid.core_count, 4)
       /\ frame.grid.show_graph
          => /\ frame.grid.cols = 2
             /\ IsCeil(frame.grid.rows, frame.grid.core_count, 2)
       /\ RowMajorOnce(frame.grid)

\* C11 amended: as stated, except that the gauge grid has min(4, n) columns
\* (fewer than 4 on a host with fewer than 4 cores).
C11_Grid ==
    (frame.drawn /\ frame.grid.core_count >= 1)
    => /\ ~frame.grid.show_graph
          => /\ frame.grid.cols = (IF frame.grid.core_count < 4
                                   THEN frame.grid.core_count ELSE 4)
             /\ IsCeil(frame.grid.rows, frame.grid.core_count, 4)
       /\ frame.grid.show_graph
          => /\ frame.grid.cols = 2
             /\ IsCeil(frame.grid.rows, frame.grid.core_count, 2)
       /\ RowMajorOnce(frame.grid)

\* A gauge grid with a last row that is not full: 9 cores in 3 rows of 4.
C11_Witness ==
    /\ frame.drawn
    /\ ~frame.grid.show_graph
    /\ frame.grid.core_count = 9
    /\ frame.grid.rows = 3
    /\ Len(frame.grid.cells) = 9
    /\ frame.grid.cells[9] = [row |-> 2, col |-> 0, idx |-> 8]
    /\ cores_view.show_graph

\* ----------------------------------------------------------------- show_ui

MIN_TICK_MS == 16

MAX_TICK_MS == 200

TARGET_FRAME_MS == 33

\* Duration::from_millis(50), the tick rate show_ui starts with.
INITIAL_TICK_MS == 50

Max(a, b) == IF a > b THEN a ELSE b

\* The timeout with a fault: a plain subtraction, not floored at zero.
PollTimeout_NoFloor(rate, elapsed) == rate - elapsed

\* tick_rate.checked_sub(last_tick.elapsed()).unwrap_or(Duration::from_secs(0))
PollTimeout(rate, elapsed) == IF rate >= elapsed THEN rate - elapsed ELSE 0

\* The adjustment with a fault: the decrement is not clamped at the floor.
NextTickRate_NoFloor(rate, frame_ms) ==
    IF frame_ms > TARGET_FRAME_MS + 10
    THEN Min(rate + 10, MAX_TICK_MS)
    ELSE IF frame_ms < TARGET_FRAME_MS - 5
    THEN rate - 5
    ELSE rate

\* The adjustment with a fault: the thresholds are inclusive.
NextTickRate_Inclusive(rate, frame_ms) ==
    IF frame_ms >= TARGET_FRAME_MS + 10
    THEN Min(rate + 10, MAX_TICK_MS)
    ELSE IF frame_ms <= TARGET_FRAME_MS - 5
    THEN Max(rate - 5, MIN_TICK_MS)
    ELSE rate

\* The adjustment with a fault: a step that would pass a bound is not taken.
NextTickRate_NoPartialStep(rate, frame_ms) ==
    IF frame_ms > TARGET_FRAME_MS + 10
    THEN (IF rate + 10 > MAX_TICK_MS THEN rate ELSE rate + 10)
    ELSE IF frame_ms < TARGET_FRAME_MS - 5
    THEN (IF rate - 5 < MIN_TICK_MS THEN rate ELSE rate - 5)
    ELSE rate

\* The dynamic tick rate adjustment at the end of an iteration.
NextTickRate(rate, frame_ms) ==
    IF frame_ms > TARGET_FRAME_MS + 10
    THEN Min(rate + 10, MAX_TICK_MS)
    ELSE IF frame_ms < TARGET_FRAME_MS - 5
    THEN Max(rate - 5, MIN_TICK_MS)
    ELSE rate

\* Milliseconds a draw, a clear or a tick may take.
StepCosts == {0, 30, 60}

\* What event::read may deliver: key events of each kind, and an event that
\* is no key event.
KeyEvent(kind, code) == [type |-> "Key", kind |-> kind, code |-> code]

\* The key codes pressed while the loop runs.
LoopKeys == {"q", "Esc", "Tab", "Right", "g", "x"}

LoopEvents ==
    {KeyEvent("Press", k) : k \in LoopKeys}
        \cup {KeyEvent(kind, k) : kind \in {"Release", "Repeat"},
                                  k \in {"q", "Esc", "Tab", "g"}}
        \cup {[type |-> "Resize", kind |-> "", code |-> ""]}

\* The host readings a tick of the loop may see.
LoopSamples ==
    { [cpu |-> Pct(30), used |-> 512, total |-> 1024, device |-> TRUE,
       util |-> <<Pct(80)>>, vram |-> <<256, 1024>>,
       cores |-> CoreReadings(host.core_count, Pct(60), Pct(60))] }

\* Time passes: both elapsed() readings grow by d.
Elapse(d) ==
    /\ tick_elapsed' = Min(tick_elapsed + d, CapMs)
    /\ frame_elapsed' = Min(frame_elapsed + d, CapMs)

\* The `?` of a failed call: show_ui returns the error at once.
ReturnErr ==
    /\ pc' = "returned"
    /\ result' = "Err"

\* The value of `app` before show_ui has constructed the App.
NoApp == [constructed |-> FALSE]

LoopInit ==
    /\ host \in [core_count : {8}, nvml : {TRUE}]
    /\ app = NoApp
    /\ trail = <<>>
    /\ pc = "enable_raw_mode"
    /\ term = [raw |-> FALSE, alt |-> FALSE, cursor |-> TRUE]
    /\ tick_rate = 0
    /\ tick_elapsed = 0
    /\ frame_elapsed = 0
    /\ last_frame_time = 0
    /\ timeout = 0
    /\ result = "none"
    /\ iter = 0
    /\ routed = <<>>
    /\ event = NoEvent
    /\ clears = 0
    /\ load = "any"
    /\ stderr = <<>>
    /\ exit_code = <<>>

\* enable_raw_mode()?
EnableRawMode(ok) ==
    /\ pc = "enable_raw_mode"
    /\ IF ok
       THEN /\ term' = [term EXCEPT !.raw = TRUE]
            /\ pc' = "enter_alternate_screen"
            /\ result' = result
       ELSE /\ term' = term
            /\ ReturnErr
    /\ UNCHANGED <<wvars, cvars, mvars, load, event, clears, avars, tick_rate,
                   tick_elapsed, frame_elapsed, last_frame_time, timeout,
                   iter, routed>>

\* execute!(stdout, EnterAlternateScreen, EnableMouseCapture)?
EnterAlternateScreen(ok) ==
    /\ pc = "enter_alternate_screen"
    /\ IF ok
       THEN /\ term' = [term EXCEPT !.alt = TRUE]
            /\ pc' = "terminal_new"
            /\ result' = result
       ELSE /\ term' = term
            /\ ReturnErr
    /\ UNCHANGED <<wvars, cvars, mvars, load, event, clears, avars, tick_rate,
                   tick_elapsed, frame_elapsed, last_frame_time, timeout,
                   iter, routed>>

\* Terminal::new(backend)?, then the pacing state and App::new().
TerminalNew(ok) ==
    /\ pc = "terminal_new"
    /\ IF ok
       THEN /\ pc' = "loop"
            /\ result' = result
            /\ tick_rate' = INITIAL_TICK_MS
            /\ tick_elapsed' = 0
            /\ last_frame_time' = 0
            /\ app' = App_new(host.nvml, host.core_count)
       ELSE /\ ReturnErr
            /\ UNCHANGED <<tick_rate, tick_elapsed, last_frame_time, app>>
    /\ UNCHANGED <<wvars, cvars, mvars, load, event, clears, host, trail,
                   term, frame_elapsed, timeout, iter, routed>>

\* The number of iterations a run starts, by the environment it runs in.
IterLimit ==
    IF load = "idle" THEN MaxIdleIters
    ELSE IF load = "keys" THEN MaxKeyIters
    ELSE MaxIters

\* Top of the loop: frame_start = Instant::now(); app.take_needs_clear().
LoopTop ==
    /\ pc = "loop"
    /\ iter < IterLimit
    /\ iter' = iter + 1
    /\ frame_elapsed' = 0
    /\ app' = App_take_needs_clear(app).app
    /\ pc' = IF App_take_needs_clear(app).result THEN "clear" ELSE "draw"
    /\ UNCHANGED <<wvars, cvars, mvars, load, event, clears, host, trail,
                   term, tick_rate, tick_elapsed, last_frame_time, timeout,
                   result, routed>>

\* terminal.clear()?
Clear(ok, d) ==
    /\ pc = "clear"
    /\ Elapse(d)
    /\ IF ok
       THEN /\ pc' = "draw"
            /\ result' = result
       ELSE ReturnErr
    /\ clears' = clears + 1
    /\ UNCHANGED <<wvars, cvars, mvars, load, event, avars, term, tick_rate,
                   last_frame_time, timeout, iter, routed>>

\* terminal.draw(|frame| app.draw(frame))?, then the timeout of the poll.
Draw(ok, d) ==
    /\ pc = "draw"
    /\ Elapse(d)
    /\ IF ok
       THEN /\ pc' = "poll"
            /\ result' = result
            /\ timeout' = PollTimeout(tick_rate, tick_elapsed')
       ELSE /\ ReturnErr
            /\ timeout' = timeout
    /\ UNCHANGED <<wvars, cvars, mvars, load, event, clears, avars, term,
                   tick_rate, last_frame_time, iter, routed>>

\* event::poll(timeout)? is Ok(true): an event is ready after w <= timeout.
PollReady(w) ==
    /\ pc = "poll"
    /\ w <= timeout
    /\ Elapse(w)
    /\ pc' = "read"
    /\ UNCHANGED <<wvars, cvars, mvars, load, event, clears, avars, term,
                   tick_rate, last_frame_time, timeout, result, iter, routed>>

\* The timed-out poll with a fault: the tick check is skipped.
PollTimedOut_SkipsTick ==
    /\ pc = "poll"
    /\ Elapse(timeout)
    /\ pc' = "quit_check"
    /\ UNCHANGED <<wvars, cvars, mvars, load, event, clears, avars, term,
                   tick_rate, last_frame_time, timeout, result, iter, routed>>

\* The timed-out poll with a fault: the time spent waiting is not part of
\* the measured cost of the iteration.
PollTimedOut_WaitNotMeasured ==
    /\ pc = "poll"
    /\ tick_elapsed' = Min(tick_elapsed + timeout, CapMs)
    /\ pc' = "tick"
    /\ UNCHANGED <<wvars, cvars, mvars, load, event, clears, avars, term,
                   tick_rate, frame_elapsed, last_frame_time, timeout, result,
                   iter, routed>>

\* event::poll(timeout)? is Ok(false): the timeout passed without an event.
PollTimedOut ==
    /\ pc = "poll"
    /\ Elapse(timeout)
    /\ pc' = "tick"
    /\ UNCHANGED <<wvars, cvars, mvars, load, event, clears, avars, term,
                   tick_rate, last_frame_time, timeout, result, iter, routed>>

\* event::poll(timeout)? is Err.
PollFailed ==
    /\ pc = "poll"
    /\ ReturnErr
    /\ UNCHANGED <<wvars, cvars, mvars, load, event, clears, avars, term,
                   tick_rate, tick_elapsed, frame_elapsed, last_frame_time,
                   timeout, iter, routed>>

\* event::read()? delivers ev.
Read(ev) ==
    /\ pc = "read"
    /\ event' = ev
    /\ pc' = "route"
    /\ UNCHANGED <<wvars, cvars, mvars, load, clears, avars, term, tick_rate,
                   tick_elapsed, frame_elapsed, last_frame_time, timeout,
                   result, iter, routed>>

\* The routing with a fault: the kind of the key event is not looked at.
Route_AnyKind ==
    /\ pc = "route"
    /\ IF event.type = "Key"
       THEN /\ app' = App_handle_key(app, event.code)
            /\ routed' = Append(routed, event.code)
       ELSE /\ app' = app
            /\ routed' = routed
    /\ pc' = "tick"
    /\ UNCHANGED <<wvars, cvars, mvars, load, event, clears, host, trail,
                   term, tick_rate, tick_elapsed, frame_elapsed,
                   last_frame_time, timeout, result, iter>>

\* The routing with a fault: handling a key restarts the tick timer.
Route_ResetsTimer ==
    /\ pc = "route"
    /\ IF event.type = "Key" /\ event.kind = "Press"
       THEN /\ app' = App_handle_key(app, event.code)
            /\ routed' = Append(routed, event.code)
            /\ tick_elapsed' = 0
       ELSE /\ app' = app
            /\ routed' = routed
            /\ tick_elapsed' = tick_elapsed
    /\ pc' = "tick"
    /\ UNCHANGED <<wvars, cvars, mvars, load, event, clears, host, trail,
                   term, tick_rate, frame_elapsed, last_frame_time, timeout,
                   result, iter>>

\* if let Event::Key(key) = ... { if key.kind == Press { app.handle_key } }:
\* a key event of kind Press goes to app.handle_key, anything else is dropped.
Route ==
    /\ pc = "route"
    /\ IF event.type = "Key" /\ event.kind = "Press"
       THEN /\ app' = App_handle_key(app, event.code)
            /\ routed' = Append(routed, event.code)
       ELSE /\ app' = app
            /\ routed' = routed
    /\ pc' = "tick"
    /\ UNCHANGED <<wvars, cvars, mvars, load, event, clears, host, trail,
                   term, tick_rate, tick_elapsed, frame_elapsed,
                   last_frame_time, timeout, result, iter>>

\* event::read()? is Err.
ReadFailed ==
    /\ pc = "read"
    /\ ReturnErr
    /\ UNCHANGED <<wvars, cvars, mvars, load, event, clears, avars, term,
                   tick_rate, tick_elapsed, frame_elapsed, last_frame_time,
                   timeout, iter, routed>>

\* last_tick.elapsed() >= tick_rate: app.on_tick(); last_tick = Instant::now().
TickDue(m, d) ==
    /\ pc = "tick"
    /\ tick_elapsed >= tick_rate
    /\ app' = App_on_tick(app, m)
    /\ tick_elapsed' = 0
    /\ frame_elapsed' = Min(frame_elapsed + d, CapMs)
    /\ event' = NoEvent
    /\ pc' = "quit_check"
    /\ UNCHANGED <<wvars, cvars, mvars, load, clears, host, trail, term,
                   tick_rate, last_frame_time, timeout, result, iter, routed>>

\* The tick check with a fault: the view is ticked and the timer reset although
\* the interval has not passed.
TickNotDue_Ticks ==
    /\ pc = "tick"
    /\ tick_elapsed < tick_rate
    /\ app' = App_on_tick(app, CHOOSE m \in LoopSamples : TRUE)
    /\ tick_elapsed' = 0
    /\ event' = NoEvent
    /\ pc' = "quit_check"
    /\ UNCHANGED <<wvars, cvars, mvars, load, clears, host, trail, term,
                   tick_rate, frame_elapsed, last_frame_time, timeout, result,
                   iter, routed>>

\* last_tick.elapsed() < tick_rate: no tick in this iteration.
TickNotDue ==
    /\ pc = "tick"
    /\ tick_elapsed < tick_rate
    /\ event' = NoEvent
    /\ pc' = "quit_check"
    /\ UNCHANGED <<wvars, cvars, mvars, load, clears, avars, term, tick_rate,
                   tick_elapsed, frame_elapsed, last_frame_time, timeout,
                   result, iter, routed>>

\* The quit check with a fault: the flag is not looked at and the loop goes on.
QuitCheck_NoBreak ==
    /\ pc = "quit_check"
    /\ pc' = "pacing"
    /\ UNCHANGED <<wvars, cvars, mvars, load, event, clears, avars, term,
                   tick_rate, tick_elapsed, frame_elapsed, last_frame_time,
                   timeout, result, iter, routed>>

\* if app.should_quit() { break; }
QuitCheck ==
    /\ pc = "quit_check"
    /\ pc' = IF App_should_quit(app) THEN "disable_raw_mode" ELSE "pacing"
    /\ UNCHANGED <<wvars, cvars, mvars, load, event, clears, avars, term,
                   tick_rate, tick_elapsed, frame_elapsed, last_frame_time,
                   timeout, result, iter, routed>>

\* last_frame_time = frame_start.elapsed() and the tick rate adjustment.
Pacing ==
    /\ pc = "pacing"
    /\ last_frame_time' = frame_elapsed
    /\ tick_rate' = NextTickRate(tick_rate, frame_elapsed)
    /\ pc' = "loop"
    /\ UNCHANGED <<wvars, cvars, mvars, load, event, clears, avars, term,
                   tick_elapsed, frame_elapsed, timeout, result, iter,
                   routed>>

\* disable_raw_mode()?
DisableRawMode(ok) ==
    /\ pc = "disable_raw_mode"
    /\ IF ok
       THEN /\ term' = [term EXCEPT !.raw = FALSE]
            /\ pc' = "leave_alternate_screen"
            /\ result' = result
       ELSE /\ term' = term
            /\ ReturnErr
    /\ UNCHANGED <<wvars, cvars, mvars, load, event, clears, avars, tick_rate,
                   tick_elapsed, frame_elapsed, last_frame_time, timeout,
                   iter, routed>>

\* execute!(terminal.backend_mut(), LeaveAlternateScreen, DisableMouseCapture)?
LeaveAlternateScreen(ok) ==
    /\ pc = "leave_alternate_screen"
    /\ IF ok
       THEN /\ term' = [term EXCEPT !.alt = FALSE]
            /\ pc' = "show_cursor"
            /\ result' = result
       ELSE /\ term' = term
            /\ ReturnErr
    /\ UNCHANGED <<wvars, cvars, mvars, load, event, clears, avars, tick_rate,
                   tick_elapsed, frame_elapsed, last_frame_time, timeout,
                   iter, routed>>

\* terminal.show_cursor()?; Ok(())
ShowCursor(ok) ==
    /\ pc = "show_cursor"
    /\ pc' = "returned"
    /\ result' = IF ok THEN "Ok" ELSE "Err"
    /\ UNCHANGED <<wvars, cvars, mvars, load, event, clears, avars, term,
                   tick_rate, tick_elapsed, frame_elapsed, last_frame_time,
                   timeout, iter, routed>>

\* main after show_ui has returned: an Err is written to the error stream by
\* eprintln!, and main returns, which ends the process with exit code 0.
MainReturn ==
    /\ pc = "returned"
    /\ exit_code = <<>>
    /\ stderr' = IF result = "Err" THEN Append(stderr, "UI error") ELSE stderr
    /\ exit_code' = <<0>>
    /\ UNCHANGED <<wvars, cvars, avars, pc, term, tick_rate, tick_elapsed,
                   frame_elapsed, last_frame_time, timeout, result, iter,
                   routed, event, clears, load>>

LoopNext ==
    \/ \E ok \in BOOLEAN : EnableRawMode(ok)
    \/ \E ok \in BOOLEAN : EnterAlternateScreen(ok)
    \/ \E ok \in BOOLEAN : TerminalNew(ok)
    \/ LoopTop
    \/ \E ok \in BOOLEAN, d \in StepCosts : Clear(ok, d)
    \/ \E ok \in BOOLEAN, d \in StepCosts : Draw(ok, d)
    \/ \E w \in {0, timeout} : PollReady(w)
    \/ PollTimedOut
    \/ PollFailed
    \/ \E ev \in LoopEvents : Read(ev)
    \/ Route
    \/ ReadFailed
    \/ \E m \in LoopSamples, d \in StepCosts : TickDue(m, d)
    \/ TickNotDue
    \/ QuitCheck
    \/ Pacing
    \/ \E ok \in BOOLEAN : DisableRawMode(ok)
    \/ \E ok \in BOOLEAN : LeaveAlternateScreen(ok)
    \/ \E ok \in BOOLEAN : ShowCursor(ok)
    \/ MainReturn

InitLoop == LoopInit /\ WidgetIdle /\ CoresIdle

SpecLoop == InitLoop /\ [][LoopNext]_vars

\* --------------------------------------------------- pacing of show_ui

\* frame_start.elapsed() in milliseconds at the end of an iteration: the
\* thresholds of the adjustment, their neighbours, and values well away.
PacingCosts == {0, 27, 28, 33, 43, 44, 60}

\* The costs the host produces under a load.
CostsUnder(l) ==
    IF l = "slow" THEN {c \in PacingCosts : c > TARGET_FRAME_MS + 10}
    ELSE IF l = "fast" THEN {c \in PacingCosts : c < TARGET_FRAME_MS - 5}
    ELSE PacingCosts

\* show_ui on entry to its loop: the terminal is set up, the pacing state and
\* the App are as constructed.
PacingInit ==
    /\ host \in [core_count : {8}, nvml : {TRUE}]
    /\ app = App_new(host.nvml, host.core_count)
    /\ trail = <<>>
    /\ pc = "loop"
    /\ term = [raw |-> TRUE, alt |-> TRUE, cursor |-> TRUE]
    /\ tick_rate = INITIAL_TICK_MS
    /\ tick_elapsed = 0
    /\ frame_elapsed = 0
    /\ last_frame_time = 0
    /\ timeout = 0
    /\ result = "none"
    /\ iter = 0
    /\ routed = <<>>
    /\ event = NoEvent
    /\ clears = 0
    /\ load = "any"
    /\ stderr = <<>>
    /\ exit_code = <<>>

\* One iteration of the loop that does not quit, as the pacing state sees it:
\* the iteration took frame_ms, which is stored and adjusts the tick rate.
Iteration(frame_ms) ==
    /\ pc = "loop"
    /\ frame_ms \in CostsUnder(load)
    /\ frame_elapsed' = frame_ms
    /\ last_frame_time' = frame_ms
    /\ tick_rate' = NextTickRate(tick_rate, frame_ms)
    /\ UNCHANGED <<wvars, cvars, mvars, avars, pc, term, tick_elapsed,
                   timeout, result, iter, routed, event, clears, load>>

\* From now on every iteration is slow, or every iteration is fast.
LoadSettles(l) ==
    /\ load = "any"
    /\ load' = l
    /\ UNCHANGED <<wvars, cvars, mvars, avars, pc, term, tick_rate,
                   tick_elapsed, frame_elapsed, last_frame_time, timeout,
                   result, iter, routed, event, clears>>

PacingNext ==
    \/ \E frame_ms \in PacingCosts : Iteration(frame_ms)
    \/ \E l \in {"slow", "fast"} : LoadSettles(l)

InitPacing == PacingInit /\ WidgetIdle /\ CoresIdle

SpecPacing == InitPacing /\ [][PacingNext]_vars

\* The loop has no blocking call other than event::poll, which returns after
\* the timeout at the latest: while it does not quit it keeps iterating.
SpecPacingFair ==
    InitPacing /\ [][PacingNext]_vars
        /\ WF_vars(\E frame_ms \in PacingCosts : Iteration(frame_ms))

\* C12: in every state of the loop the tick interval lies in [16ms, 200ms],
\* whatever the costs of the iterations so far were, and the decrement
\* tick_rate - 5 is never below zero.
C12_IntervalBounded ==
    /\ MIN_TICK_MS <= tick_rate
    /\ tick_rate <= MAX_TICK_MS
    /\ tick_rate - 5 >= 0

\* A fast iteration at an interval within 5ms of the floor, clamped to it.
C12_Witness ==
    /\ tick_rate = MIN_TICK_MS
    /\ last_frame_time < TARGET_FRAME_MS - 5
    /\ load = "any"

\* C13: an iteration changes the tick interval by the fixed steps only: a cost
\* above 43ms makes it min(interval + 10, 200), a cost below 28ms makes it
\* max(interval - 5, 16), and a cost of 28..43ms leaves it as it was.
C13_FixedSteps ==
    [][ load' = load
        => /\ last_frame_time' > 43
              => tick_rate' = (IF tick_rate + 10 > 200 THEN 200 ELSE tick_rate + 10)
           /\ last_frame_time' < 28
              => tick_rate' = (IF tick_rate - 5 < 16 THEN 16 ELSE tick_rate - 5)
           /\ last_frame_time' \in 28..43
              => tick_rate' = tick_rate ]_vars

\* The first iteration cost 44ms and raised the interval from 50ms to 60ms.
C13_Witness ==
    /\ tick_rate = INITIAL_TICK_MS + 10
    /\ last_frame_time = 44

\* C14: once every iteration costs more than 43ms the tick interval reaches
\* 200ms and stays there; once every iteration costs less than 28ms it reaches
\* 16ms and stays there.
C14_Convergence ==
    /\ [](load = "slow" => <>[](tick_rate = MAX_TICK_MS))
    /\ [](load = "fast" => <>[](tick_rate = MIN_TICK_MS))

\* The ceiling reached under a load that is slow for good.
C14_Witness ==
    /\ load = "slow"
    /\ tick_rate = MAX_TICK_MS
    /\ last_frame_time > TARGET_FRAME_MS + 10

\* ------------------------------------------------- properties of show_ui

\* Positions of show_ui at which the App exists.
AppBuilt ==
    pc \notin {"idle", "enable_raw_mode", "enter_alternate_screen", "terminal_new"}
        /\ app # NoApp

RegistryKinds(a) == [i \in 1..Len(a.ticking_views) |-> a.ticking_views[i].inner.kind]

\* C9: with the registry [Status, SystemMonitor, CpuCores] of App::new, which
\* starts at index 0, two routed keys Tab (or Right) leave the index at 2, and
\* a routed q (or Esc) after them sets the quit flag and takes show_ui out of
\* the loop: control goes on to the tick and the quit check only, and from
\* there to the code after the loop.
C9_TabTabQuit ==
    (AppBuilt /\ RegistryKinds(app) = <<"StatusView", "SystemMonitorView", "CpuCoresView">>)
    => /\ (Len(routed) = 2 /\ routed[1] \in {"Tab", "Right"}
             /\ routed[2] \in {"Tab", "Right"})
          => (app.current_view = 2 /\ ~app.should_quit)
       /\ (Len(routed) = 3 /\ routed[1] \in {"Tab", "Right"}
             /\ routed[2] \in {"Tab", "Right"} /\ routed[3] \in {"q", "Esc"})
          => /\ app.current_view = 2
             /\ app.should_quit
             /\ pc \in {"tick", "quit_check", "disable_raw_mode",
                        "leave_alternate_screen", "show_cursor", "returned"}

C9_Witness ==
    /\ AppBuilt
    /\ routed = <<"Tab", "Tab", "q">>
    /\ app.current_view = 2
    /\ app.should_quit
    /\ pc = "returned"
    /\ result = "Ok"

\* C15 as stated: whenever show_ui has returned, on whatever path, the
\* terminal is in neither raw mode nor the alternate screen.
C15_RestoredOnReturn ==
    pc = "returned" => (~term.raw /\ ~term.alt)

\* show_ui returned an error before its loop started.
SetupFailed == result = "Err" /\ iter = 0

\* C16 as stated: the process exits with code 0 on a clean quit; on a setup
\* failure the error is reported once to the error stream, no view was
\* constructed or ticked, and the exit code is not 0.
C16_ExitCodes ==
    exit_code # <<>>
    => /\ result = "Ok" => exit_code = <<0>>
       /\ SetupFailed
          => /\ Len(stderr) = 1
             /\ app = NoApp
             /\ exit_code # <<0>>

\* C17: an event that is not a key press (a release, a repeat, an event that
\* is no key event) is dropped: the App (index, flags, every view) is after it
\* as it was before, and nothing is routed, whatever the key code.
C17_OnlyPressRouted ==
    [][ (pc = "route" /\ ~(event.type = "Key" /\ event.kind = "Press"))
        => (app' = app /\ routed' = routed) ]_vars

\* A release of q was read and dropped: nothing routed, no quit.
C17_Witness ==
    /\ pc = "tick"
    /\ event = KeyEvent("Release", "q")
    /\ routed = <<>>
    /\ ~app.should_quit
    /\ app.current_view = 0

\* The view switches so far: the views of App::new consume none of the keys
\* bound to next_view and prev_view, so every such key routed is a switch.
Switches ==
    Cardinality({i \in DOMAIN routed : routed[i] \in {"Tab", "Right", "BackTab", "Left"}})

\* C20: an iteration that starts with the redraw flag set clears before it
\* draws and resets the flag; the flag is down from there until a key is
\* routed; and the clears made never number more than one plus the switches.
C20_ClearPerSwitch ==
    /\ [](AppBuilt => clears <= 1 + Switches)
    /\ [](pc \in {"clear", "draw", "poll", "read", "route"} => ~app.needs_clear)
    /\ [][ (pc = "loop" /\ pc' # "loop")
           => /\ pc' = (IF app.needs_clear THEN "clear" ELSE "draw")
              /\ ~app'.needs_clear ]_vars
    /\ [][ (pc = "clear" /\ pc' # "clear")
           => (clears' = clears + 1 /\ pc' \in {"draw", "returned"}) ]_vars

\* One switch, two clears (the initial one and the one after the switch), and
\* a third iteration that drew without clearing.
C20_Witness ==
    /\ routed = <<"Tab">>
    /\ clears = 2
    /\ iter = 3
    /\ pc = "poll"
    /\ ~app.needs_clear

\* C21: the timeout handed to the input wait is max(0, interval - elapsed since
\* the last tick): never negative, 0 when the tick is overdue, and never more
\* than the interval, hence never more than 200ms.
C21_WaitTimeout ==
    pc = "poll"
    => /\ timeout = (IF tick_rate - tick_elapsed > 0
                     THEN tick_rate - tick_elapsed ELSE 0)
       /\ timeout >= 0
       /\ tick_elapsed >= tick_rate => timeout = 0
       /\ timeout <= tick_rate
       /\ timeout <= 200

\* A draw of 60ms at the 50ms interval: the tick is overdue and the wait is 0.
C21_Witness ==
    /\ pc = "poll"
    /\ tick_elapsed > tick_rate
    /\ timeout = 0

\* C22: at the tick check the active view is ticked exactly when the time since
\* the last tick is at least the interval, and the timer is reset exactly then;
\* otherwise (an iteration cut short by a key) nothing is ticked and the timer
\* runs on.
C22_TickWhenDue ==
    [][ pc = "tick"
        => IF tick_elapsed >= tick_rate
           THEN /\ tick_elapsed' = 0
                /\ \E m \in LoopSamples : app' = App_on_tick(app, m)
           ELSE /\ tick_elapsed' = tick_elapsed
                /\ app' = app ]_vars

\* A key after a draw of 30ms ended the first iteration early: no tick, the
\* timer still shows the 30ms.
C22_Witness ==
    /\ pc = "quit_check"
    /\ iter = 1
    /\ routed = <<"x">>
    /\ tick_elapsed = 30
    /\ tick_elapsed < tick_rate
    /\ app.ticking_views = App_new(host.nvml, host.core_count).ticking_views

\* C23: with the quit flag set the loop is at its tick check, its quit check or
\* past its end, and nothing of the loop happens any more: no clear, no key
\* routed, no new timeout, no pacing adjustment, no further iteration.
C23_QuitEndsLoop ==
    /\ []((AppBuilt /\ app.should_quit)
          => pc \in {"tick", "quit_check", "disable_raw_mode",
                     "leave_alternate_screen", "show_cursor", "returned"})
    /\ [][ (AppBuilt /\ app.should_quit)
           => /\ pc' \notin {"loop", "clear", "draw", "poll", "read", "route",
                             "pacing"}
              /\ clears' = clears
              /\ routed' = routed
              /\ timeout' = timeout
              /\ tick_rate' = tick_rate
              /\ last_frame_time' = last_frame_time
              /\ iter' = iter ]_vars

\* q in the first iteration: show_ui returned Ok without a second iteration.
C23_Witness ==
    /\ pc = "returned"
    /\ result = "Ok"
    /\ routed = <<"q">>
    /\ iter = 1
    /\ clears = 1
    /\ tick_rate = INITIAL_TICK_MS

\* The order of the steps of an iteration, and the ways out of the loop.
StepOrder ==
    { <<"loop", "clear">>, <<"loop", "draw">>, <<"clear", "draw">>,
      <<"draw", "poll">>, <<"poll", "read">>, <<"poll", "tick">>,
      <<"read", "route">>, <<"route", "tick">>, <<"tick", "quit_check">>,
      <<"quit_check", "pacing">>, <<"pacing", "loop">>,
      <<"clear", "returned">>, <<"draw", "returned">>, <<"poll", "returned">>,
      <<"read", "returned">>, <<"quit_check", "disable_raw_mode">> }

InLoop ==
    pc \in {"loop", "clear", "draw", "poll", "read", "route", "tick",
            "quit_check", "pacing"}

\* C24: an iteration goes draw, input wait, key or timeout, tick check, quit
\* check, pacing; a key is routed only at the routing step, which precedes the
\* tick check, views change only at the routing step and the tick check, and
\* before the first draw no key was routed and no view ticked.
C24_StepOrder ==
    /\ [][ (InLoop /\ pc' # pc) => <<pc, pc'>> \in StepOrder ]_vars
    /\ [][ (InLoop /\ routed' # routed) => pc = "route" ]_vars
    /\ [][ (InLoop /\ app'.ticking_views # app.ticking_views)
           => pc \in {"route", "tick"} ]_vars
    /\ []( ((pc = "loop" /\ iter = 0) \/ (pc \in {"clear", "draw"} /\ iter = 1))
           => /\ routed = <<>>
              /\ app.ticking_views
                     = App_new(host.nvml, host.core_count).ticking_views )

\* Tab arrived after a draw of 60ms: it was routed first, so the tick that
\* followed in the same iteration went to the SystemMonitorView.
C24_Witness ==
    /\ pc = "pacing"
    /\ iter = 1
    /\ routed = <<"Tab">>
    /\ tick_elapsed = 0
    /\ app.current_view = 1
    /\ app.ticking_views[2] # App_new(host.nvml, host.core_count).ticking_views[2]
    /\ app.ticking_views[1] = App_new(host.nvml, host.core_count).ticking_views[1]

\* ------------------------------------- SystemMonitorView specification

\* The readings a refresh of the view may see: two levels of host load, the
\* device handle obtained or not, and each GPU reading delivered (one of two
\* values) or failed.
MonitorSamples ==
    { [cpu |-> h.cpu, used |-> h.used, total |-> 1024, device |-> d,
       util |-> u, vram |-> v, cores |-> <<>>] :
        h \in {[cpu |-> Pct(30), used |-> 256], [cpu |-> Pct(90), used |-> 768]},
        d \in BOOLEAN,
        u \in {<<>>, <<Pct(20)>>, <<Pct(80)>>},
        v \in {<<>>, <<256, 1024>>, <<768, 1024>>} }

\* SystemMonitorView::new, with Nvml::init() having succeeded or not.
MonitorInit ==
    /\ monitor_view \in {SystemMonitorView_new(nvml) : nvml \in BOOLEAN}
    /\ reading = <<>>

\* TickingComponent::on_tick of the view: refresh, which returns nothing.
MonitorOnTick(m) ==
    /\ monitor_view' = View_on_tick(monitor_view, m)
    /\ reading' = <<m>>
    /\ UNCHANGED <<wvars, avars, lvars, cores_view, frame, chan>>

MonitorNext == \E m \in MonitorSamples : MonitorOnTick(m)

InitMonitor ==
    MonitorInit /\ WidgetIdle /\ AppIdle /\ LoopIdle /\ CoresRest /\ ChannelsIdle

SpecMonitor == InitMonitor /\ [][MonitorNext]_vars

\* The utilisation reading of a tick was delivered to the view: NVML was
\* initialised, the device handle was obtained and utilization_rates was Ok.
UtilDelivered(view, m) == view.nvml /\ m.device /\ Len(m.util) > 0

\* Likewise for memory_info.
VramDelivered(view, m) == view.nvml /\ m.device /\ Len(m.vram) > 0

\* C26: a tick of the SystemMonitorView pushes the GPU utilisation buffer
\* exactly when the utilisation reading was delivered and the VRAM buffer
\* exactly when the memory reading was delivered, each independently of the
\* other; a buffer whose reading was not delivered (no NVML, no device, or a
\* failed reading) is left exactly as it was, and the CPU and memory buffers
\* are pushed on every tick.
C26_GpuPushedOnlyOnReading ==
    [][LET m == reading'[1]
           old == monitor_view
           new == monitor_view'
       IN  /\ new.gpu_graph.graph =
                 IF UtilDelivered(old, m)
                 THEN UsageGraph_push(old.gpu_graph.graph, m.util[1])
                 ELSE old.gpu_graph.graph
           /\ new.gpu_graph.vram_graph =
                 IF VramDelivered(old, m)
                 THEN UsageGraph_push(old.gpu_graph.vram_graph,
                                      F((m.vram[1] * 100 * Resolution) \div m.vram[2]))
                 ELSE old.gpu_graph.vram_graph
           /\ new.cpu_graph.graph = UsageGraph_push(old.cpu_graph.graph, m.cpu)
           /\ new.memory_graph.graph =
                 UsageGraph_push(old.memory_graph.graph,
                                 F((m.used * 100 * Resolution) \div m.total))
           /\ new.nvml = old.nvml
           /\ new.kind = old.kind]_vars

\* The last tick had no utilisation reading while the memory reading was
\* delivered: the GPU buffer still shows the 80% of an earlier tick, the VRAM
\* buffer the 75% and the CPU buffer the 90% of this one.
C26_Witness ==
    /\ reading # <<>>
    /\ monitor_view.nvml
    /\ reading[1].device
    /\ reading[1].util = <<>>
    /\ reading[1].vram = <<768, 1024>>
    /\ reading[1].cpu = Pct(90)
    /\ monitor_view.gpu_graph.graph.initialized
    /\ UsageGraph_get_current(monitor_view.gpu_graph.graph) = Pct(80)
    /\ UsageGraph_get_current(monitor_view.gpu_graph.vram_graph) = Pct(75)
    /\ UsageGraph_get_current(monitor_view.cpu_graph.graph) = Pct(90)

\* ------------------------------------------ memory widget specification

\* (used_bytes, total_bytes) handed to a memory widget, in MiB: nothing used,
\* a third, half and all of the total, more than the total, and both with a
\* total of 0.
MemoryInputs ==
    { [used |-> 0, total |-> 1024], [used |-> 1, total |-> 3],
      [used |-> 512, total |-> 1024], [used |-> 1024, total |-> 1024],
      [used |-> 1536, total |-> 1024], [used |-> 0, total |-> 0],
      [used |-> 512, total |-> 0] }

\* One MemoryGraph or MemoryGauge; `pushed` lists the inputs handed to it.
MemoryInit ==
    /\ widget \in {MemoryGraph_new, MemoryGauge_new}
    /\ pushed = <<>>

IsMemoryGauge(w) == "gauge" \in DOMAIN w

MemoryGraphPush(x) ==
    /\ ~IsMemoryGauge(widget)
    /\ Len(pushed) < MaxPushes
    /\ widget' = MemoryGraph_push(widget, x.used, x.total)
    /\ pushed' = Append(pushed, x)
    /\ UNCHANGED <<avars, lvars, cvars>>

MemoryGaugeSetUsage(x) ==
    /\ IsMemoryGauge(widget)
    /\ Len(pushed) < MaxPushes
    /\ widget' = MemoryGauge_set_usage(widget, x.used, x.total)
    /\ pushed' = Append(pushed, x)
    /\ UNCHANGED <<avars, lvars, cvars>>

MemoryNext ==
    \/ \E x \in MemoryInputs : MemoryGraphPush(x)
    \/ \E x \in MemoryInputs : MemoryGaugeSetUsage(x)

InitMemory == MemoryInit /\ AppIdle /\ LoopIdle /\ CoresIdle

SpecMemory == InitMemory /\ [][MemoryNext]_vars

\* The percentage a memory widget holds after its last push: the newest
\* sample of the graph, or the value of the gauge.
MemoryPercent(w) ==
    IF IsMemoryGauge(w) THEN UsageGauge_get_usage(w.gauge)
    ELSE UsageGraph_get_current(w.graph)

\* C27: after a push of (used_bytes, total_bytes) a memory widget holds the
\* percentage used/total*100 clamped to [0, 100]: 0 when total_bytes is 0
\* (never NaN or an infinity), 100 when used_bytes exceeds total_bytes; the
\* used and total figures kept for the label are those of the last push
\* whatever the percentage is.
C27_MemoryPercent ==
    pushed # <<>> =>
        LET x == LastPushed
            pct == MemoryPercent(widget)
        IN  /\ ~pct.nan
            /\ Pct(0).v <= pct.v /\ pct.v <= Pct(100).v
            /\ x.total = 0 => pct = F(0)
            /\ (x.total > 0 /\ x.used > x.total) => pct = Pct(100)
            /\ (x.total > 0 /\ x.used <= x.total) =>
                   pct = F((x.used * 100 * Resolution) \div x.total)
            /\ widget.used_gb = F((x.used * Resolution) \div 1024)
            /\ widget.total_gb = F((x.total * Resolution) \div 1024)

\* A push with more used than total after a push with a total of 0: the
\* percentage is 100 and the label shows 1.5 of 1.0 GiB.
C27_Witness ==
    /\ Len(pushed) >= 2
    /\ pushed[Len(pushed) - 1].total = 0
    /\ pushed[Len(pushed) - 1].used > 0
    /\ LastPushed = [used |-> 1536, total |-> 1024]
    /\ MemoryPercent(widget) = Pct(100)
    /\ widget.used_gb = F((3 * Resolution) \div 2)
    /\ widget.total_gb = F(Resolution)

\* ------------------------------------------- viewer channel specification

\* Calls of get_viewer_channels per thread and messages sent per channel.
MaxCalls == 2

MaxMsgs == 2

\* OnceLock::get_or_init with a fault: the check of the cell and the run of
\* the initializer are not synchronised, so a thread may start the
\* initializer while another one runs it.
OnceLock_may_init_Unsynchronised(ch) == ch.cell = <<>>

\* OnceLock::get_or_init runs the initializer in the calling thread only when
\* the cell is empty and no other thread runs it; a thread that finds it
\* running blocks until the cell is set.
OnceLock_may_init(ch) == ch.cell = <<>> /\ ch.running = 0

ChannelsInit == chan = NoChannels

\* A thread calls get_viewer_channels.
Call(t) ==
    /\ chan.at[t] = "out"
    /\ Len(chan.got[t]) < MaxCalls
    /\ chan' = [chan EXCEPT !.at[t] = "call",
                            !.waited = IF chan.running # 0 THEN @ \cup {t} ELSE @]
    /\ UNCHANGED <<wvars, avars, lvars, cores_view, frame, monitor_view, reading>>

\* get_or_init finds the cell empty and starts the initializer.
BeginInit(t) ==
    /\ chan.at[t] = "call"
    /\ OnceLock_may_init(chan)
    /\ chan' = [chan EXCEPT !.at[t] = "init", !.running = t,
                            !.waited = @ \cup {u \in Threads \ {t} : chan.at[u] = "call"}]
    /\ UNCHANGED <<wvars, avars, lvars, cores_view, frame, monitor_view, reading>>

\* The initializer has built the two channels; the pair is stored in the cell
\* and returned.
FinishInit(t) ==
    /\ chan.at[t] = "init"
    /\ chan' = [chan EXCEPT !.created = @ + 1,
                            !.cell = <<chan.created + 1>>,
                            !.running = 0,
                            !.got[t] = Append(@, chan.created + 1),
                            !.at[t] = "out"]
    /\ UNCHANGED <<wvars, avars, lvars, cores_view, frame, monitor_view, reading>>

\* get_or_init finds the cell set and returns its pair.
GetExisting(t) ==
    /\ chan.at[t] = "call"
    /\ chan.cell # <<>>
    /\ chan' = [chan EXCEPT !.got[t] = Append(@, chan.cell[1]), !.at[t] = "out"]
    /\ UNCHANGED <<wvars, avars, lvars, cores_view, frame, monitor_view, reading>>

\* A thread holding the pair sends on one of its senders; the message carries
\* its sender and its number on the channel.
Send(t, c) ==
    /\ chan.got[t] # <<>>
    /\ Len(chan.sent[c]) < MaxMsgs
    /\ LET msg == [from |-> t, n |-> Len(chan.sent[c]) + 1]
       IN  chan' = [chan EXCEPT !.queue[c] = Append(@, msg),
                               !.sent[c] = Append(@, msg)]
    /\ UNCHANGED <<wvars, avars, lvars, cores_view, frame, monitor_view, reading>>

\* A thread holding the pair locks one of its receivers and receives.
Recv(t, c) ==
    /\ chan.got[t] # <<>>
    /\ chan.queue[c] # <<>>
    /\ chan' = [chan EXCEPT !.queue[c] = Tail(@),
                            !.received[c] = Append(@, Head(chan.queue[c]))]
    /\ UNCHANGED <<wvars, avars, lvars, cores_view, frame, monitor_view, reading>>

ChannelsNext ==
    \/ \E t \in Threads : Call(t)
    \/ \E t \in Threads : BeginInit(t)
    \/ \E t \in Threads : FinishInit(t)
    \/ \E t \in Threads : GetExisting(t)
    \/ \E t \in Threads, c \in ChannelNames : Send(t, c)
    \/ \E t \in Threads, c \in ChannelNames : Recv(t, c)

InitChannels ==
    ChannelsInit /\ WidgetIdle /\ AppIdle /\ LoopIdle /\ CoresRest /\ MonitorIdle

SpecChannels == InitChannels /\ [][ChannelsNext]_vars

\* C28: the initializer of VIEWER_CHANNELS runs at most once, also when
\* several threads are inside their first call together; every call of every
\* thread returns that one pair; and on each channel the messages received,
\* followed by those still in flight, are the messages sent, in the order
\* they were sent (nothing lost, duplicated or reordered).
C28_SinglePairFifo ==
    /\ chan.created <= 1
    /\ Cardinality({u \in Threads : chan.at[u] = "init"}) <= 1
    /\ \A t \in Threads : \A i \in 1..Len(chan.got[t]) :
           chan.cell # <<>> /\ chan.got[t][i] = chan.cell[1]
    /\ \A t, u \in Threads :
           \A i \in 1..Len(chan.got[t]), j \in 1..Len(chan.got[u]) :
              chan.got[t][i] = chan.got[u][j]
    /\ \A c \in ChannelNames : chan.received[c] \o chan.queue[c] = chan.sent[c]

\* A thread found the initializer running when it made its first call; both
\* threads have made all their calls, and two commands sent by different
\* threads have been received in the order sent.
C28_Witness ==
    /\ chan.waited # {}
    /\ \A t \in Threads : Len(chan.got[t]) = MaxCalls
    /\ Len(chan.received["command"]) = 2
    /\ chan.received["command"][1].from # chan.received["command"][2].from
    /\ chan.received["command"][1].n = 1
    /\ chan.received["command"][2].n = 2

\* ------------------------------------------------- the idle loop of show_ui

\* Intervals an idle stretch of the loop may begin with: the initial one, the
\* bounds, and values on both sides of the two thresholds that the
\* adjustment steps can produce.
IdleStarts == {16, 21, 26, 30, 31, 40, 41, 45, 46, INITIAL_TICK_MS, 195, 200}

\* Time since last_tick was taken at the top of an iteration.  At the top of
\* the first iteration this is the time App::new() took, as last_tick is
\* taken before the App is constructed.
IdleElapsed == {0, 10, 30, 60}

\* The loop at the top of an iteration, on a host where draws, clears and
\* ticks take no measurable time and no input arrives.
IdleInit ==
    /\ host \in [core_count : {8}, nvml : {TRUE}]
    /\ app = App_new(host.nvml, host.core_count)
    /\ trail = <<>>
    /\ pc = "loop"
    /\ term = [raw |-> TRUE, alt |-> TRUE, cursor |-> TRUE]
    /\ tick_rate \in IdleStarts
    /\ tick_elapsed \in IdleElapsed
    /\ frame_elapsed = 0
    /\ last_frame_time = 0
    /\ timeout = 0
    /\ result = "none"
    /\ iter = 0
    /\ routed = <<>>
    /\ event = NoEvent
    /\ clears = 0
    /\ load = "idle"
    /\ stderr = <<>>
    /\ exit_code = <<>>

IdleNext ==
    \/ LoopTop
    \/ Clear(TRUE, 0)
    \/ Draw(TRUE, 0)
    \/ PollTimedOut
    \/ \E m \in LoopSamples : TickDue(m, 0)
    \/ QuitCheck
    \/ Pacing

InitIdle == IdleInit /\ WidgetIdle /\ CoresIdle

SpecIdle == InitIdle /\ [][IdleNext]_vars

\* The loop thread keeps running: every wait is bounded by the timeout.
SpecIdleFair == SpecIdle /\ WF_vars(IdleNext)

\* What the adjustment does to an interval when the iteration cost exactly
\* that interval.
IdleStep(rate) ==
    IF rate > TARGET_FRAME_MS + 10 THEN Min(rate + 10, MAX_TICK_MS)
    ELSE IF rate < TARGET_FRAME_MS - 5 THEN Max(rate - 5, MIN_TICK_MS)
    ELSE rate

\* The idle loop as first described: the loop that starts with the initial
\* interval of 50 ms has the interval min(50 + 10 k, 200) after k iterations,
\* and an interval of 28 ms or more never decreases.
C29_AsStated ==
    /\ (tick_rate = INITIAL_TICK_MS =>
           [](pc = "loop" => tick_rate = Min(INITIAL_TICK_MS + 10 * iter, MAX_TICK_MS)))
    /\ [][tick_rate >= TARGET_FRAME_MS - 5 => tick_rate' >= tick_rate]_vars

\* C29: the cost measured at the end of an iteration without input is at
\* least the timeout of its wait.  In the idle loop every iteration ends with
\* a tick, so every iteration after the first costs exactly the interval and
\* the interval moves by IdleStep; the first iteration costs the interval less
\* the time that had passed since last_tick was taken.  The loop that starts
\* with the initial interval of 50 ms therefore has 45, 50 or 60 ms after its
\* first iteration, gains 10 ms in every later one, reaches 200 ms and stays
\* there; after the first iteration an interval of 28 ms or more never
\* decreases, and one below 28 ms ends at the floor.
C29_IdleClimbs ==
    /\ [](pc \in {"tick", "quit_check", "pacing"} => frame_elapsed >= timeout)
    /\ [][pc = "pacing" =>
             /\ last_frame_time' >= timeout
             /\ iter > 1 => /\ last_frame_time' = tick_rate
                            /\ tick_rate' = IdleStep(tick_rate)]_vars
    /\ (tick_rate = INITIAL_TICK_MS =>
           [](pc = "loop" /\ iter >= 1 =>
                \E first \in {INITIAL_TICK_MS - 5, INITIAL_TICK_MS, INITIAL_TICK_MS + 10} :
                    tick_rate = Min(first + 10 * (iter - 1), MAX_TICK_MS)))
    /\ (tick_rate = INITIAL_TICK_MS => <>[](tick_rate = MAX_TICK_MS))
    /\ [][(iter > 1 /\ tick_rate >= TARGET_FRAME_MS - 5) => tick_rate' >= tick_rate]_vars
    /\ [][(iter > 1 /\ tick_rate < TARGET_FRAME_MS - 5) => tick_rate' <= tick_rate]_vars
    /\ ((iter > 1 /\ tick_rate < TARGET_FRAME_MS - 5) ~> [](tick_rate = MIN_TICK_MS))

\* The loop started at 50 ms after an App::new() of 30 ms or more: the first
\* iteration lowered the interval to 45 ms, and the seventeenth cost 195 ms
\* and raised it to 200 ms.
C29_Witness ==
    /\ load = "idle"
    /\ pc = "loop"
    /\ iter = 17
    /\ last_frame_time = 195
    /\ tick_rate = MAX_TICK_MS

\* ----------------------------------- show_ui under a stream of key presses

\* Presses that do not quit.
StreamKeys == {"Tab", "Right", "g", "x"}

\* Milliseconds a draw or a clear takes on a host where they take time.
DrawCosts == {30, 60}

\* The loop at the top of its first iteration; App::new() took 0 or 30 ms.
KeysInit ==
    /\ host \in [core_count : {8}, nvml : {TRUE}]
    /\ app = App_new(host.nvml, host.core_count)
    /\ trail = <<>>
    /\ pc = "loop"
    /\ term = [raw |-> TRUE, alt |-> TRUE, cursor |-> TRUE]
    /\ tick_rate = INITIAL_TICK_MS
    /\ tick_elapsed \in {0, 30}
    /\ frame_elapsed = 0
    /\ last_frame_time = 0
    /\ timeout = 0
    /\ result = "none"
    /\ iter = 0
    /\ routed = <<>>
    /\ event = NoEvent
    /\ clears = 0
    /\ load = "keys"
    /\ stderr = <<>>
    /\ exit_code = <<>>

\* The loop body when every poll finds a key press ready at once.
KeysNext ==
    \/ LoopTop
    \/ \E d \in DrawCosts : Clear(TRUE, d)
    \/ \E d \in DrawCosts : Draw(TRUE, d)
    \/ PollReady(0)
    \/ \E k \in StreamKeys : Read(KeyEvent("Press", k))
    \/ Route
    \/ \E m \in LoopSamples, d \in StepCosts : TickDue(m, d)
    \/ TickNotDue
    \/ QuitCheck
    \/ Pacing

InitKeys == KeysInit /\ WidgetIdle /\ CoresIdle

SpecKeys == InitKeys /\ [][KeysNext]_vars

\* The loop thread keeps running.
SpecKeysFair == SpecKeys /\ WF_vars(KeysNext)

\* A tick has just run in an iteration that also routed a key.
TickedWithKey ==
    /\ pc = "quit_check"
    /\ tick_elapsed = 0
    /\ Len(routed) = iter

\* C30: with a key press ready at every poll, an iteration routes at most
\* one key; reading and routing leave the tick timer and the interval alone;
\* when the interval has passed at the poll the timeout is 0, and when it has
\* passed at the tick check the active view is ticked and the timer
\* restarted in that iteration although a key was routed in it; and as draws
\* take time, a tick eventually runs.
C30_NoStarvation ==
    /\ [](Len(routed) <= iter)
    /\ [][(pc = "read" \/ pc = "route") =>
             (tick_elapsed' = tick_elapsed /\ tick_rate' = tick_rate)]_vars
    /\ [](pc = "poll" /\ tick_elapsed >= tick_rate => timeout = 0)
    /\ [][(pc = "tick" /\ tick_elapsed >= tick_rate) =>
             /\ event.type = "Key"
             /\ tick_elapsed' = 0
             /\ pc' = "quit_check"
             /\ \E m \in LoopSamples : app' = App_on_tick(app, m)]_vars
    /\ <>TickedWithKey

\* The second iteration ticked after a key was routed in each of the two.
C30_Witness ==
    /\ load = "keys"
    /\ iter = 2
    /\ Len(routed) = 2
    /\ pc = "quit_check"
    /\ tick_elapsed = 0
    /\ ~App_should_quit(app)

\* ------------------------------------------- gauge rendering specification

\* One of the three widgets that render a ratatui Gauge.
GaugesInit ==
    /\ widget \in {UsageGauge_new, CoreGraph_new, MemoryGauge_new}
    /\ pushed = <<>>

GaugesNext ==
    \/ \E p \in Inputs : UsageGaugeSetUsage(p)
    \/ \E p \in Inputs : CoreGraphPush(p)
    \/ \E x \in MemoryInputs : MemoryGaugeSetUsage(x)

InitGauges == GaugesInit /\ AppIdle /\ LoopIdle /\ CoresIdle

SpecGauges == InitGauges /\ [][GaugesNext]_vars

\* The argument of Gauge::percent in the render of the widget.
RenderedPercent(w) ==
    IF w.kind = "UsageGauge" THEN UsageGauge_render_percent(w)
    ELSE IF w.kind = "CoreGraph" THEN CoreGraph_render_gauge_percent(w)
    ELSE MemoryGauge_render_percent(w)

\* C32: whatever has been pushed into a UsageGauge, a CoreGraph or a
\* MemoryGauge, and before anything has, the integer its render hands to
\* Gauge::percent is between 0 and 100.
C32_RenderedPercentInRange ==
    /\ RenderedPercent(widget) \in 0..100
    /\ pushed = <<>> => RenderedPercent(widget) = 0

\* A widget took NaN and then a value above the range (150%, or more memory
\* used than there is) and renders 100.
C32_Witness ==
    /\ Len(pushed) = 2
    /\ IF widget.kind = "MemoryGauge"
       THEN /\ pushed[1].total = 0
            /\ pushed[2].used > pushed[2].total /\ pushed[2].total > 0
       ELSE /\ pushed[1].nan
            /\ pushed[2] = Pct(150)
    /\ RenderedPercent(widget) = 100

====
